---- MODULE Spec2Model ----
(***************************************************************************)
(* Model of namegiver: the similarity filter, the process-wide token      *)
(* tracker, the name and description generators (namegiver.py) and the    *)
(* provider-calling operations of the project store (projects.py).        *)
(*                                                                         *)
(* A Python str is a sequence of one-character strings.                    *)
(***************************************************************************)
EXTENDS Integers, Sequences, FiniteSets, TLC

(***************************************************************************)
(* Bounds of the model.                                                    *)
(***************************************************************************)
MaxLen == 2
MaxRefs == 2
MaxThreshold == 2
MaxOps == 4
MaxAttempts == 2
MaxUsage == 1
MaxTotal == 1
MaxEntries == 2
MaxPolls == 2

(***************************************************************************)
(* Strings.                                                                *)
(***************************************************************************)
UpperCase == <<"A","B","C","D","E","F","G","H","I","J","K","L","M",
               "N","O","P","Q","R","S","T","U","V","W","X","Y","Z">>
LowerCase == <<"a","b","c","d","e","f","g","h","i","j","k","l","m",
               "n","o","p","q","r","s","t","u","v","w","x","y","z">>
Whitespace == {" ", "\n", "\t"}

\* str.lower() on one character
lowerChar(c) ==
    IF \E i \in 1..26 : UpperCase[i] = c
    THEN LowerCase[CHOOSE i \in 1..26 : UpperCase[i] = c]
    ELSE c

\* str.lower()
lower(s) == [i \in 1..Len(s) |-> lowerChar(s[i])]

\* str.strip(): drop leading and trailing whitespace
RECURSIVE lstrip(_)
lstrip(s) ==
    IF s # <<>> /\ Head(s) \in Whitespace THEN lstrip(Tail(s)) ELSE s

RECURSIVE rstrip(_)
rstrip(s) ==
    IF s # <<>> /\ s[Len(s)] \in Whitespace
    THEN rstrip(SubSeq(s, 1, Len(s) - 1))
    ELSE s

strip(s) == rstrip(lstrip(s))

Min2(a, b) == IF a <= b THEN a ELSE b

\* One row of the Levenshtein matrix: the row for character ch of the first
\* string, from the previous row prev, against the second string t.  acc is
\* the part of the row built so far.
RECURSIVE LevRow(_, _, _, _)
LevRow(prev, ch, t, acc) ==
    IF Len(acc) = Len(t) + 1
    THEN acc
    ELSE LET j == Len(acc)
             cost == IF ch = t[j] THEN 0 ELSE 1
             v == Min2(Min2(prev[j + 1] + 1, acc[j] + 1), prev[j] + cost)
         IN  LevRow(prev, ch, t, Append(acc, v))

RECURSIVE LevRows(_, _, _, _)
LevRows(s, t, i, prev) ==
    IF i > Len(s)
    THEN prev[Len(t) + 1]
    ELSE LevRows(s, t, i + 1, LevRow(prev, s[i], t, <<prev[1] + 1>>))

\* Levenshtein.distance(s, t)
distance(s, t) == LevRows(s, t, 1, [j \in 1..(Len(t) + 1) |-> j - 1])

\* all() where the code has any()
is_too_similar_all(new_name, past_names, threshold) ==
    /\ past_names # <<>>
    /\ \A k \in 1..Len(past_names) :
          distance(lower(new_name), lower(past_names[k])) <= threshold

\* the new name is not lower-cased
is_too_similar_cased(new_name, past_names, threshold) ==
    \E k \in 1..Len(past_names) :
        distance(new_name, lower(past_names[k])) <= threshold

\* < where the code has <=
is_too_similar_strict(new_name, past_names, threshold) ==
    \E k \in 1..Len(past_names) :
        distance(lower(new_name), lower(past_names[k])) < threshold

\* is_too_similar(new_name, past_names, threshold)
is_too_similar(new_name, past_names, threshold) ==
    \E k \in 1..Len(past_names) :
        distance(lower(new_name), lower(past_names[k])) <= threshold

DefaultThreshold == 2

\* str.split('\n'): cur is the line being read
RECURSIVE SplitLinesFrom(_, _)
SplitLinesFrom(s, cur) ==
    IF s = <<>>
    THEN <<cur>>
    ELSE IF Head(s) = "\n"
         THEN <<cur>> \o SplitLinesFrom(Tail(s), <<>>)
         ELSE SplitLinesFrom(Tail(s), Append(cur, Head(s)))

split_lines(s) == SplitLinesFrom(s, <<>>)

\* [line.strip() for line in lines if line.strip()]
RECURSIVE strip_nonblank(_)
strip_nonblank(lines) ==
    IF lines = <<>>
    THEN <<>>
    ELSE IF strip(Head(lines)) # <<>>
         THEN <<strip(Head(lines))>> \o strip_nonblank(Tail(lines))
         ELSE strip_nonblank(Tail(lines))

(***************************************************************************)
(* json.dump(data, f, indent=2) and json.load(f), character by character.  *)
(***************************************************************************)
Digits == <<"0", "1", "2", "3", "4", "5", "6", "7", "8", "9">>

\* str(n) of a non-negative int
RECURSIVE int_str(_)
int_str(n) ==
    IF n < 10
    THEN <<Digits[n + 1]>>
    ELSE int_str(n \div 10) \o <<Digits[(n % 10) + 1]>>

\* the escapes of json.encoder.py_encode_basestring_ascii
json_escape_char(c) ==
    IF c = "\"" THEN <<"\\", "\"">>
    ELSE IF c = "\\" THEN <<"\\", "\\">>
    ELSE IF c = "\n" THEN <<"\\", "n">>
    ELSE IF c = "\t" THEN <<"\\", "t">>
    ELSE <<c>>

RECURSIVE json_escape(_)
json_escape(s) ==
    IF s = <<>> THEN <<>> ELSE json_escape_char(Head(s)) \o json_escape(Tail(s))

\* a str as a JSON string
json_string(s) == <<"\"">> \o json_escape(s) \o <<"\"">>

RECURSIVE spaces(_)
spaces(n) == IF n = 0 THEN <<>> ELSE <<" ">> \o spaces(n - 1)

\* the line break and the indentation of a nesting level under indent=2
json_newline(level) == <<"\n">> \o spaces(2 * level)

\* the members of a dict from the i-th on; vals are texts already encoded
RECURSIVE json_members(_, _, _, _)
json_members(keys, vals, i, level) ==
    IF i > Len(keys)
    THEN <<>>
    ELSE json_newline(level) \o json_string(keys[i]) \o <<":", " ">> \o vals[i]
         \o (IF i < Len(keys) THEN <<",">> ELSE <<>>)
         \o json_members(keys, vals, i + 1, level)

\* a dict whose own brace is at the given nesting level
json_dict(keys, vals, level) ==
    IF Len(keys) = 0
    THEN <<"{", "}">>
    ELSE <<"{">> \o json_members(keys, vals, 1, level + 1) \o json_newline(level) \o <<"}">>

\* self.categories[category], a dict of name -> description
json_entries(entries, level) ==
    json_dict([i \in 1..Len(entries) |-> entries[i].name],
              [i \in 1..Len(entries) |-> json_string(entries[i].description)],
              level)

\* self.categories, a dict of category -> dict
json_categories(cats, level) ==
    json_dict([i \in 1..Len(cats) |-> cats[i].cat],
              [i \in 1..Len(cats) |-> json_entries(cats[i].entries, level + 1)],
              level)

\* a category label as the str it is
label_str(c) ==
    IF c = "characters" THEN <<"c","h","a","r","a","c","t","e","r","s">>
    ELSE IF c = "locations" THEN <<"l","o","c","a","t","i","o","n","s">>
    ELSE <<>>


\* what json.load makes of a text: a str, an int, a dict, a list, or no value
\* at all when the text is not JSON
JVal(t, s, n, keys, vals) == [t |-> t, s |-> s, n |-> n, keys |-> keys, vals |-> vals]
JStr(s) == JVal("str", s, 0, <<>>, <<>>)
JNum(n) == JVal("num", <<>>, n, <<>>, <<>>)
JObj(keys, vals) == JVal("obj", <<>>, 0, keys, vals)
JArr(vals) == JVal("arr", <<>>, 0, <<>>, vals)
JErr == JVal("err", <<>>, 0, <<>>, <<>>)

\* a parse: the value and the position after it
Parsed(v, pos) == [val |-> v, pos |-> pos]
ParseError == Parsed(JErr, 0)

JsonWhitespace == {" ", "\n", "\t", "\r"}
DigitChars == {Digits[i] : i \in 1..10}
digit_value(c) == (CHOOSE i \in 1..10 : Digits[i] = c) - 1

char_at(s, i) == IF i <= Len(s) THEN s[i] ELSE "EOF"

RECURSIVE skip_ws(_, _)
skip_ws(s, i) ==
    IF i <= Len(s) /\ s[i] \in JsonWhitespace THEN skip_ws(s, i + 1) ELSE i

\* json.decoder.scanstring from the character after the opening quote
RECURSIVE scan_string(_, _, _)
scan_string(s, i, acc) ==
    IF i > Len(s) THEN ParseError
    ELSE IF s[i] = "\"" THEN Parsed(JStr(acc), i + 1)
    ELSE IF s[i] \in {"\n", "\t", "\r"} THEN ParseError
    ELSE IF s[i] = "\\"
         THEN LET e == char_at(s, i + 1)
              IN  IF e \in {"\"", "\\", "/"} THEN scan_string(s, i + 2, Append(acc, e))
                  ELSE IF e = "n" THEN scan_string(s, i + 2, Append(acc, "\n"))
                  ELSE IF e = "t" THEN scan_string(s, i + 2, Append(acc, "\t"))
                  ELSE ParseError
         ELSE scan_string(s, i + 1, Append(acc, s[i]))

\* the digits of an int
RECURSIVE scan_int(_, _, _)
scan_int(s, i, acc) ==
    IF i <= Len(s) /\ s[i] \in DigitChars
    THEN scan_int(s, i + 1, 10 * acc + digit_value(s[i]))
    ELSE Parsed(JNum(acc), i)

\* dict(pairs): a repeated key keeps its place and takes the last value
pairs_put(keys, vals, k, v) ==
    IF \E j \in 1..Len(keys) : keys[j] = k
    THEN [keys |-> keys,
          vals |-> [j \in 1..Len(vals) |-> IF keys[j] = k THEN v ELSE vals[j]]]
    ELSE [keys |-> Append(keys, k), vals |-> Append(vals, v)]

\* json.scanner: a value from position i (whitespace already skipped)
RECURSIVE parse_value(_, _)
RECURSIVE parse_members(_, _, _, _)
RECURSIVE parse_items(_, _, _)

parse_value(s, i) ==
    LET c == char_at(s, i)
    IN  IF c = "\"" THEN scan_string(s, i + 1, <<>>)
        ELSE IF c \in DigitChars THEN scan_int(s, i, 0)
        ELSE IF c = "{"
             THEN LET j == skip_ws(s, i + 1)
                  IN  IF char_at(s, j) = "}"
                      THEN Parsed(JObj(<<>>, <<>>), j + 1)
                      ELSE parse_members(s, j, <<>>, <<>>)
        ELSE IF c = "["
             THEN LET j == skip_ws(s, i + 1)
                  IN  IF char_at(s, j) = "]"
                      THEN Parsed(JArr(<<>>), j + 1)
                      ELSE parse_items(s, j, <<>>)
        ELSE ParseError

\* JSONObject: "key": value pairs from position i up to the closing brace
parse_members(s, i, keys, vals) ==
    IF char_at(s, i) # "\"" THEN ParseError
    ELSE LET k == scan_string(s, i + 1, <<>>)
         IN  IF k.val.t = "err" THEN ParseError
             ELSE LET colon == skip_ws(s, k.pos)
                  IN  IF char_at(s, colon) # ":" THEN ParseError
                      ELSE LET v == parse_value(s, skip_ws(s, colon + 1))
                           IN  IF v.val.t = "err" THEN ParseError
                               ELSE LET put == pairs_put(keys, vals, k.val.s, v.val)
                                        nxt == skip_ws(s, v.pos)
                                    IN  IF char_at(s, nxt) = "}"
                                        THEN Parsed(JObj(put.keys, put.vals), nxt + 1)
                                        ELSE IF char_at(s, nxt) = ","
                                        THEN parse_members(s, skip_ws(s, nxt + 1),
                                                           put.keys, put.vals)
                                        ELSE ParseError

\* JSONArray: values from position i up to the closing bracket
parse_items(s, i, vals) ==
    LET v == parse_value(s, i)
    IN  IF v.val.t = "err" THEN ParseError
        ELSE LET nxt == skip_ws(s, v.pos)
             IN  IF char_at(s, nxt) = "]"
                 THEN Parsed(JArr(Append(vals, v.val)), nxt + 1)
                 ELSE IF char_at(s, nxt) = ","
                 THEN parse_items(s, skip_ws(s, nxt + 1), Append(vals, v.val))
                 ELSE ParseError

\* json.load: one value, and nothing but whitespace after it
json_load(s) ==
    LET v == parse_value(s, skip_ws(s, 1))
    IN  IF v.val.t = "err" THEN JErr
        ELSE IF skip_ws(s, v.pos) <= Len(s) THEN JErr
        ELSE v.val

\* key in data
json_has(obj, k) == \E j \in 1..Len(obj.keys) : obj.keys[j] = k
\* data[key]
json_get(obj, k) == obj.vals[CHOOSE j \in 1..Len(obj.keys) : obj.keys[j] = k]

(***************************************************************************)
(* save_project and load_project                                           *)
(***************************************************************************)
KeyName == <<"n","a","m","e">>
KeyDescription == <<"d","e","s","c","r","i","p","t","i","o","n">>
KeyCategories == <<"c","a","t","e","g","o","r","i","e","s">>
KeyTokenUsage == <<"t","o","k","e","n","_","u","s","a","g","e">>

\* a NameProject: its four attributes
Project(n, d, cats, usage) ==
    [name |-> n, description |-> d, categories |-> cats, token_usage |-> usage]

\* the text json.dump(data, f, indent=2) writes for the data of save_project
save_project(project) ==
    json_dict(<<KeyName, KeyDescription, KeyCategories, KeyTokenUsage>>,
              <<json_string(project.name),
                json_string(project.description),
                json_categories([i \in 1..Len(project.categories) |->
                                    [cat |-> label_str(project.categories[i].cat),
                                     entries |-> project.categories[i].entries]], 1),
                int_str(project.token_usage)>>,
              0)

\* what load_project does: it returns a project or raises
Loaded(k, project) == [kind |-> k, project |-> project]
NoProject == Loaded("nothing", Project(JErr, JErr, <<>>, JErr))
LoadRaises(exc) == Loaded(exc, Project(JErr, JErr, <<>>, JErr))

\* NameProject.add_category on the project being loaded
load_add_category(cats, c) ==
    IF \E i \in 1..Len(cats) : cats[i].cat = c
    THEN cats
    ELSE Append(cats, [cat |-> c, entries |-> <<>>])

\* d[name] = description on the dict of the category being loaded
load_dict_set(entries, n, d) ==
    IF \E i \in 1..Len(entries) : entries[i].name = n
    THEN [i \in 1..Len(entries) |->
             IF entries[i].name = n THEN [name |-> n, description |-> d] ELSE entries[i]]
    ELSE Append(entries, [name |-> n, description |-> d])

\* for name, description in names_dict.items(): project.add_name(...)
RECURSIVE load_names(_, _, _)
load_names(entries, names_dict, i) ==
    IF i > Len(names_dict.keys)
    THEN entries
    ELSE load_names(load_dict_set(entries, names_dict.keys[i], names_dict.vals[i]),
                    names_dict, i + 1)

\* for category, names_dict in data["categories"].items(): ...
RECURSIVE load_categories(_, _, _)
load_categories(cats, cats_dict, i) ==
    IF i > Len(cats_dict.keys)
    THEN cats
    ELSE LET c == cats_dict.keys[i]
             added == load_add_category(cats, c)
             at == CHOOSE j \in 1..Len(added) : added[j].cat = c
         IN  load_categories(
                 [added EXCEPT ![at].entries = load_names(@, cats_dict.vals[i], 1)],
                 cats_dict, i + 1)

\* a loader that forgets the saved token_usage
load_token_usage_zero(data) == JNum(0)

\* data.get("token_usage", 0)
load_token_usage(data) ==
    IF json_has(data, KeyTokenUsage) THEN json_get(data, KeyTokenUsage) ELSE JNum(0)

\* load_project on the text of an existing file
load_project(text) ==
    LET data == json_load(text)
    IN  IF data.t = "err" THEN LoadRaises("ValueError")
        ELSE IF data.t # "obj" THEN LoadRaises("TypeError")
        ELSE IF ~json_has(data, KeyName) THEN LoadRaises("ValueError")
        ELSE IF ~json_has(data, KeyCategories) THEN LoadRaises("ValueError")
        ELSE LET cats_dict == json_get(data, KeyCategories)
             IN  IF cats_dict.t # "obj" THEN LoadRaises("AttributeError")
                 ELSE IF \E i \in 1..Len(cats_dict.vals) : cats_dict.vals[i].t # "obj"
                      THEN LoadRaises("AttributeError")
                      ELSE Loaded("project",
                               Project(json_get(data, KeyName),
                                       IF json_has(data, KeyDescription)
                                       THEN json_get(data, KeyDescription)
                                       ELSE JStr(<<>>),
                                       load_categories(<<>>, cats_dict, 1),
                                       load_token_usage(data)))

\* the file at the path: absent, or a text
NoFile == [exists |-> FALSE, text |-> <<>>]
FileOf(text) == [exists |-> TRUE, text |-> text]

MyWorld == <<"M","y"," ","W">>
(***************************************************************************)
(* The provider (client.chat.completions.create) as seen by the callers.   *)
(***************************************************************************)
John == <<"J","o","h","n">>
Jon == <<"J","o","n">>
Zed == <<"Z","e","d">>
PaddedJon == <<" ","J","o","n"," ">>
ThreeLines == <<"J","o","n","\n"," ","\n","Z","e","d","\n","z","e","d"," ">>
PaddedOld == <<" ","o","l","d","\n">>

NameTexts == {PaddedJon, Zed}
BatchTexts == {ThreeLines, Zed}
DescriptionTexts == {PaddedOld}

NoUsage == 0 - 1
UsageVals == {NoUsage} \cup 0..MaxUsage

\* a raised exception, a response without choices, a response with a first choice
Responses(texts, usages) ==
    {[kind |-> "fail", text |-> <<>>, usage |-> NoUsage]}
    \cup {[kind |-> "empty", text |-> <<>>, usage |-> u] : u \in usages}
    \cup {[kind |-> "ok", text |-> t, usage |-> u] : t \in texts, u \in usages}

NameResponses == Responses(NameTexts, UsageVals)
BatchResponses == Responses(BatchTexts, UsageVals)
DescriptionResponses == Responses(DescriptionTexts, UsageVals)

\* response.usage.total_tokens where the response has it
reported(resp) == IF resp.usage = NoUsage THEN 0 ELSE resp.usage

(***************************************************************************)
(* The project's categories: a dict of dicts, kept in insertion order.     *)
(***************************************************************************)
CategoryLabels == {"characters"}

\* category in self.categories
has_category(cats, c) == \E i \in 1..Len(cats) : cats[i].cat = c

cat_index(cats, c) == CHOOSE i \in 1..Len(cats) : cats[i].cat = c

\* self.categories[category]
entries_of(cats, c) == cats[cat_index(cats, c)].entries

\* list(self.categories[category].keys())
get_names(cats, c) ==
    [i \in 1..Len(entries_of(cats, c)) |-> entries_of(cats, c)[i].name]

\* an add_category that starts the category afresh each time
add_category_resets(cats, c) ==
    IF has_category(cats, c)
    THEN [cats EXCEPT ![cat_index(cats, c)].entries = <<>>]
    ELSE Append(cats, [cat |-> c, entries |-> <<>>])

\* NameProject.add_category
add_category(cats, c) ==
    IF has_category(cats, c)
    THEN cats
    ELSE Append(cats, [cat |-> c, entries |-> <<>>])

\* an assignment that makes a new dict of the one name
dict_set_alone(entries, name, description) ==
    <<[name |-> name, description |-> description]>>

\* a dict that moves a key to the end when the key is written again
dict_set_moves_last(entries, name, description) ==
    Append(SelectSeq(entries, LAMBDA e : e.name # name),
           [name |-> name, description |-> description])

\* d[name] = description on a dict
dict_set(entries, name, description) ==
    IF \E i \in 1..Len(entries) : entries[i].name = name
    THEN [i \in 1..Len(entries) |->
             IF entries[i].name = name
             THEN [name |-> name, description |-> description]
             ELSE entries[i]]
    ELSE Append(entries, [name |-> name, description |-> description])

\* self.categories[category][name] = description
set_description(cats, c, name, description) ==
    [cats EXCEPT ![cat_index(cats, c)].entries = dict_set(@, name, description)]

(***************************************************************************)
(* What a call returns or raises.                                          *)
(***************************************************************************)
MissingKey == "Missing OpenAI API key"
InvalidResponse == "Invalid API response"
ProviderError == "provider error"

Outcome(k, t, l, m) == [kind |-> k, text |-> t, list |-> l, msg |-> m]

NoResult == Outcome("nothing", <<>>, <<>>, "")
ReturnNone == Outcome("None", <<>>, <<>>, "")
ReturnStr(t) == Outcome("str", t, <<>>, "")
ReturnList(l) == Outcome("list", <<>>, l, "")
\* {"name": ..., "description": ...}
ReturnDict(n, d) == Outcome("dict", n, <<d>>, "")
\* f"Error generating name: {str(e)}", f"Error generating description: {str(e)}"
ReturnErrorStr(what, m) ==
    Outcome("error_str", <<"Error generating ", what, ": ", m>>, <<>>, m)
Raise(exc, m) == Outcome(exc, <<>>, <<>>, m)

\* str(e) of what the try block of a chat completion call raised
failure_msg(resp) == IF resp.kind = "fail" THEN ProviderError ELSE InvalidResponse

VARIABLES
    env_key,        \* os.getenv("OPENAI_API_KEY") is set and not empty
    total_tokens,   \* token_tracker.total_tokens
    categories,     \* project.categories
    token_usage,    \* project.token_usage
    pc,             \* where the running call is: "idle" between calls, "done" when it has ended
    op,             \* arguments and locals of the running call
    result,         \* what the call returned or raised
    calls,          \* provider calls issued by the call
    billed,         \* usage of the successful responses and add_usage calls since the last reset
    start_tokens,   \* total_tokens when the call began
    attempts_log,   \* one entry per provider call of the call
    fs,             \* the temporary project file and the file uploaded to the provider
    tracker,        \* total_tokens of a TokenTracker() of its own
    tracker_log,    \* the operations applied to it
    sim_in,         \* arguments of is_too_similar
    sim_out,        \* its result
    project_name,   \* project.name
    project_description, \* project.description
    disk,           \* the file at the path save_project and load_project are given
    saved,          \* the project as it was when save_project wrote the file
    loaded,         \* what load_project returned
    threads         \* the callers that run at the same time: where each is, its locals

vars == <<env_key, total_tokens, categories, token_usage, pc, op, result, calls,
          billed, start_tokens, attempts_log, fs, tracker, tracker_log, sim_in, sim_out,
          project_name, project_description, disk, saved, loaded, threads>>

genvars == <<env_key, total_tokens, categories, token_usage, pc, op, result, calls,
             billed, start_tokens, attempts_log, fs>>
trackervars == <<tracker, tracker_log>>
simvars == <<sim_in, sim_out>>
filevars == <<project_name, project_description, disk, saved, loaded>>
\* what the calls on the generators and the project never touch
racevars == <<threads>>
apart == <<tracker, tracker_log, sim_in, sim_out, filevars, racevars>>

(***************************************************************************)
(* Inputs of the calls.                                                    *)
(***************************************************************************)
PastNameLists == {<<>>, <<John>>, <<Zed, John>>}
AddAmounts == {0, 1}

IdleOp ==
    [name |-> "", category |-> "", item |-> <<>>, text |-> <<>>,
     past_names |-> <<>>, max_attempts |-> 0, count |-> 0,
     attempt |-> 0, want_desc |-> FALSE, generated |-> <<>>, idx |-> 0,
     status |-> "", file_obj |-> FALSE, unlink |-> "", described |-> <<>>,
     before |-> <<>>, outcome |-> NoResult]

\* a provider call: what it was for, the text and the usage of the response,
\* and what became of it (accepted, rejected as too similar, failed)
LogEntry(what, outcome, resp) ==
    [call |-> what, outcome |-> outcome, text |-> resp.text, usage |-> reported(resp)]

DescriptionLog(resp) ==
    LogEntry("description", IF resp.kind = "ok" THEN "accepted" ELSE "failed", resp)

\* no caller but the one of pc and op
NoThreads == <<>>

\* a call begins
Begin ==
    /\ pc = "idle"
    /\ total_tokens <= MaxTotal
    /\ token_usage <= MaxTotal
    /\ start_tokens' = total_tokens

\* the usage of a successful response is owed
Bill(resp) == IF resp.kind = "ok" THEN billed + reported(resp) ELSE billed

GenInit ==
    /\ env_key = TRUE
    /\ total_tokens = 0
    /\ categories = <<>>
    /\ token_usage = 0
    /\ pc = "idle"
    /\ op = IdleOp
    /\ result = NoResult
    /\ calls = 0
    /\ billed = 0
    /\ start_tokens = 0
    /\ attempts_log = <<>>
    /\ fs = [temp_file |-> FALSE, remote_file |-> FALSE]
    /\ project_name = MyWorld
    /\ project_description = <<>>
    /\ disk = NoFile
    /\ saved = NoProject
    /\ loaded = NoProject
    /\ threads = NoThreads

(***************************************************************************)
(* The caller, the environment and the tracker.                            *)
(***************************************************************************)
\* the caller has the result of its call and goes on
Ack ==
    /\ pc = "done"
    /\ pc' = "idle"
    /\ result' = NoResult
    /\ calls' = 0
    /\ start_tokens' = 0
    /\ attempts_log' = <<>>
    /\ op' = IdleOp
    /\ UNCHANGED <<env_key, total_tokens, categories, token_usage, billed, fs, apart>>

\* os.environ['OPENAI_API_KEY'] is set or cleared
SetEnvKey(b) ==
    /\ pc = "idle"
    /\ env_key # b
    /\ env_key' = b
    /\ UNCHANGED <<total_tokens, categories, token_usage, pc, op, result, calls,
                   billed, start_tokens, attempts_log, fs, apart>>

\* add_usage that overwrites the total
add_usage_overwrites(total, token_count) == token_count

\* TokenTracker.add_usage
add_usage(total, token_count) == total + token_count

\* TokenTracker.reset
reset(total) == 0

\* TokenTracker.report
report(total) == [total_tokens_used |-> total]

\* token_tracker.add_usage(n)
AddUsage(n) ==
    /\ pc = "idle"
    /\ total_tokens <= MaxTotal
    /\ total_tokens' = add_usage(total_tokens, n)
    /\ billed' = billed + n
    /\ UNCHANGED <<env_key, categories, token_usage, pc, op, result, calls,
                   start_tokens, attempts_log, fs, apart>>

\* token_tracker.reset()
Reset ==
    /\ pc = "idle"
    /\ total_tokens' = reset(total_tokens)
    /\ billed' = 0
    /\ UNCHANGED <<env_key, categories, token_usage, pc, op, result, calls,
                   start_tokens, attempts_log, fs, apart>>

\* NameProject.add_category(c)
AddCategory(c) ==
    /\ pc = "idle"
    /\ categories' = add_category(categories, c)
    /\ op' = [IdleOp EXCEPT !.name = "add_category", !.category = c]
    /\ result' = ReturnNone
    /\ pc' = "done"
    /\ UNCHANGED <<env_key, total_tokens, token_usage, calls,
                   billed, start_tokens, attempts_log, fs, apart>>

(***************************************************************************)
(* generate_unique_name                                                    *)
(***************************************************************************)
\* a credential check that never fires
credential_unchecked(key) == FALSE

\* if not os.getenv("OPENAI_API_KEY")
credential_missing(key) == ~key

\* a loop that takes one turn too many
loop_one_more(attempt, max_attempts) == attempt <= max_attempts

\* for _ in range(max_attempts)
loop_continues(attempt, max_attempts) == attempt < max_attempts

\* usage recorded only for the name that is returned
usage_recorded_if_kept(resp, similar) == IF similar THEN 0 ELSE reported(resp)

\* token_tracker.add_usage(response.usage.total_tokens), whatever becomes of the name
usage_recorded(resp, similar) == reported(resp)

\* a similarity test that is skipped
accepts_anything(name, past) == TRUE

\* if not is_too_similar(generated_name, past_names)
accepts(name, past) == ~is_too_similar(name, past, DefaultThreshold)

\* a failure that is raised instead of returned
name_failure_raised(resp) == Raise("RuntimeError", failure_msg(resp))

\* except Exception as e: return f"Error generating name: {str(e)}"
name_failure(resp) == ReturnErrorStr("name", failure_msg(resp))

\* the call: the credential check and past_names or []
GenerateUniqueName(past, m) ==
    /\ Begin
    /\ calls' = 0
    /\ attempts_log' = <<>>
    /\ op' = [IdleOp EXCEPT !.name = "generate_unique_name",
                            !.past_names = past, !.max_attempts = m]
    /\ IF credential_missing(env_key)
       THEN /\ result' = Raise("ValueError", MissingKey)
            /\ pc' = "done"
       ELSE /\ pc' = "gun"
            /\ result' = NoResult
    /\ UNCHANGED <<env_key, total_tokens, categories, token_usage, billed, fs, apart>>

\* one turn of the loop: the provider call and what follows it
GunAttempt(resp) ==
    /\ pc = "gun"
    /\ loop_continues(op.attempt, op.max_attempts)
    /\ calls' = calls + 1
    /\ billed' = Bill(resp)
    /\ IF resp.kind # "ok"
       THEN /\ attempts_log' = Append(attempts_log, LogEntry("name", "failed", resp))
            /\ result' = name_failure(resp)
            /\ pc' = "done"
            /\ UNCHANGED <<total_tokens, op>>
       ELSE LET name == strip(resp.text)
                ok == accepts(name, op.past_names)
            IN  /\ total_tokens' = add_usage(total_tokens, usage_recorded(resp, ~ok))
                /\ IF ok
                   THEN /\ result' = ReturnStr(name)
                        /\ attempts_log' = Append(attempts_log, LogEntry("name", "accepted", resp))
                        /\ pc' = "done"
                        /\ UNCHANGED op
                   ELSE /\ op' = [op EXCEPT !.attempt = @ + 1]
                        /\ attempts_log' = Append(attempts_log, LogEntry("name", "rejected", resp))
                        /\ UNCHANGED <<pc, result>>
    /\ UNCHANGED <<env_key, categories, token_usage, start_tokens, fs, apart>>

\* the loop ends: return None
GunExhausted ==
    /\ pc = "gun"
    /\ ~loop_continues(op.attempt, op.max_attempts)
    /\ result' = ReturnNone
    /\ pc' = "done"
    /\ UNCHANGED <<env_key, total_tokens, categories, token_usage, op, calls, billed,
                   start_tokens, attempts_log, fs, apart>>

(***************************************************************************)
(* generate_description                                                    *)
(***************************************************************************)
\* a generate_description that raises when the provider call fails
description_outcome_raises(key, resp) ==
    IF credential_missing(key)
    THEN Raise("ValueError", MissingKey)
    ELSE IF resp.kind = "ok"
         THEN ReturnStr(strip(resp.text))
         ELSE Raise("RuntimeError", failure_msg(resp))

\* what generate_description returns or raises, given the provider's answer
description_outcome(key, resp) ==
    IF credential_missing(key)
    THEN Raise("ValueError", MissingKey)
    ELSE IF resp.kind = "ok"
         THEN ReturnStr(strip(resp.text))
         ELSE ReturnErrorStr("description", failure_msg(resp))

\* what it adds to the tracker
description_usage(key, resp) ==
    IF ~credential_missing(key) /\ resp.kind = "ok" THEN reported(resp) ELSE 0

\* whether it calls the provider
description_called(key) == ~credential_missing(key)

GenerateDescription(resp) ==
    /\ Begin
    /\ op' = [IdleOp EXCEPT !.name = "generate_description"]
    /\ calls' = IF description_called(env_key) THEN 1 ELSE 0
    /\ attempts_log' = IF description_called(env_key) THEN <<DescriptionLog(resp)>> ELSE <<>>
    /\ result' = description_outcome(env_key, resp)
    /\ total_tokens' = add_usage(total_tokens, description_usage(env_key, resp))
    /\ billed' = IF description_called(env_key) THEN Bill(resp) ELSE billed
    /\ pc' = "done"
    /\ UNCHANGED <<env_key, categories, token_usage, fs, apart>>

(***************************************************************************)
(* generate_name_by_category                                               *)
(***************************************************************************)
\* the call up to the end of its own provider call; max_attempts is an argument
\* the body never reads
GenerateNameByCategory(c, past, want, resp) ==
    /\ Begin
    /\ calls' = 1
    /\ billed' = Bill(resp)
    /\ \E m \in 0..MaxAttempts :
           op' = [IdleOp EXCEPT !.name = "generate_name_by_category",
                                !.category = c, !.past_names = past, !.want_desc = want,
                                !.max_attempts = m,
                                !.generated = IF resp.kind = "ok"
                                              THEN <<strip(resp.text)>> ELSE <<>>]
    /\ IF resp.kind # "ok"
       THEN /\ result' = Raise("RuntimeError", failure_msg(resp))
            /\ attempts_log' = <<LogEntry("name", "failed", resp)>>
            /\ pc' = "done"
            /\ UNCHANGED total_tokens
       ELSE /\ total_tokens' = add_usage(total_tokens, reported(resp))
            /\ IF ~accepts(strip(resp.text), past)
               THEN /\ result' = ReturnNone
                    /\ attempts_log' = <<LogEntry("name", "rejected", resp)>>
                    /\ pc' = "done"
               ELSE /\ attempts_log' = <<LogEntry("name", "accepted", resp)>>
                    /\ IF want
                       THEN /\ pc' = "gnc_desc"
                            /\ result' = NoResult
                       ELSE /\ result' = ReturnStr(strip(resp.text))
                            /\ pc' = "done"
    /\ UNCHANGED <<env_key, categories, token_usage, fs, apart>>

\* generate_description(generated_name, ...) inside its try block
GncDescribe(resp) ==
    /\ pc = "gnc_desc"
    /\ LET d == description_outcome(env_key, resp)
       IN  /\ calls' = IF description_called(env_key) THEN calls + 1 ELSE calls
           /\ attempts_log' = IF description_called(env_key)
                              THEN Append(attempts_log, DescriptionLog(resp))
                              ELSE attempts_log
           /\ total_tokens' = add_usage(total_tokens, description_usage(env_key, resp))
           /\ billed' = IF description_called(env_key) THEN Bill(resp) ELSE billed
           /\ result' = IF d.kind = "ValueError"
                        THEN Raise("RuntimeError", d.msg)
                        ELSE ReturnDict(op.generated[1], d.text)
    /\ pc' = "done"
    /\ UNCHANGED <<env_key, categories, token_usage, op, start_tokens, fs, apart>>

(***************************************************************************)
(* NameProject.batch_generate_names                                        *)
(***************************************************************************)
DefaultCount == 3

\* [name for name in lines if name.strip()]
RECURSIVE keep_nonblank(_)
keep_nonblank(lines) ==
    IF lines = <<>>
    THEN <<>>
    ELSE IF strip(Head(lines)) # <<>>
         THEN <<Head(lines)>> \o keep_nonblank(Tail(lines))
         ELSE keep_nonblank(Tail(lines))

\* candidates that keep the blanks around them
candidate_names_untrimmed(text) == keep_nonblank(split_lines(strip(text)))

\* the candidate names of a response: its lines, trimmed, the blank ones dropped
candidate_names(text) == strip_nonblank(split_lines(strip(text)))

\* usage counted once for each candidate of the response
batch_usage_per_name(resp) ==
    IF resp.kind = "ok" THEN reported(resp) * Len(candidate_names(resp.text)) ELSE 0

\* usage counted as soon as the provider has answered
batch_usage_of_any_answer(resp) == reported(resp)

\* what the name call adds to token_tracker and to self.token_usage
batch_usage(resp) == IF resp.kind = "ok" THEN reported(resp) ELSE 0

\* a project total that keeps the usage of the last response only
project_usage_of_last(usage, resp) == batch_usage(resp)

\* self.token_usage += response.usage.total_tokens
project_usage(usage, resp) == usage + batch_usage(resp)

\* the call up to the loop over the generated names
BatchGenerateNames(c, count, want, resp) ==
    /\ Begin
    /\ IF ~has_category(categories, c)
       THEN /\ result' = Raise("ValueError", "Category does not exist")
            /\ calls' = 0
            /\ attempts_log' = <<>>
            /\ pc' = "done"
            /\ op' = [IdleOp EXCEPT !.name = "batch_generate_names", !.category = c,
                                    !.count = count, !.want_desc = want]
            /\ UNCHANGED <<total_tokens, token_usage, billed>>
       ELSE /\ Len(entries_of(categories, c)) < MaxEntries
            /\ calls' = 1
            /\ billed' = Bill(resp)
            /\ op' = [IdleOp EXCEPT !.name = "batch_generate_names",
                                    !.category = c,
                                    !.past_names = get_names(categories, c),
                                    !.count = count,
                                    !.want_desc = want,
                                    !.generated = IF resp.kind = "ok"
                                                  THEN candidate_names(resp.text)
                                                  ELSE <<>>,
                                    !.idx = 1]
            /\ total_tokens' = add_usage(total_tokens, batch_usage(resp))
            /\ token_usage' = project_usage(token_usage, resp)
            /\ IF resp.kind # "ok"
               THEN /\ result' = Raise("RuntimeError", failure_msg(resp))
                    /\ attempts_log' = <<LogEntry("names", "failed", resp)>>
                    /\ pc' = "done"
               ELSE /\ attempts_log' = <<LogEntry("names", "accepted", resp)>>
                    /\ pc' = "batch"
                    /\ result' = NoResult
    /\ UNCHANGED <<env_key, categories, fs, apart>>

\* a name that is too similar to the names the category had: nothing is stored
BatchSkip ==
    /\ pc = "batch"
    /\ op.idx <= Len(op.generated)
    /\ ~accepts(op.generated[op.idx], op.past_names)
    /\ op' = [op EXCEPT !.idx = @ + 1]
    /\ UNCHANGED <<env_key, total_tokens, categories, token_usage, pc, result, calls,
                   billed, start_tokens, attempts_log, fs, apart>>

\* a name that is kept, without a description
BatchInsert ==
    /\ pc = "batch"
    /\ op.idx <= Len(op.generated)
    /\ accepts(op.generated[op.idx], op.past_names)
    /\ ~op.want_desc
    /\ categories' = set_description(categories, op.category, op.generated[op.idx], <<>>)
    /\ op' = [op EXCEPT !.idx = @ + 1]
    /\ UNCHANGED <<env_key, total_tokens, token_usage, pc, result, calls,
                   billed, start_tokens, attempts_log, fs, apart>>

\* a loop that stores no description when the generator reports an error
batch_description_if_ok(outcome) == IF outcome.kind = "str" THEN outcome.text ELSE <<>>

\* description = generate_description(name, category, description_prompt)
batch_description(outcome) == outcome.text

\* a name that is kept, with generate_description(name, ...) inside the try block
BatchDescribe(resp) ==
    /\ pc = "batch"
    /\ op.idx <= Len(op.generated)
    /\ accepts(op.generated[op.idx], op.past_names)
    /\ op.want_desc
    /\ LET d == description_outcome(env_key, resp)
       IN  /\ calls' = IF description_called(env_key) THEN calls + 1 ELSE calls
           /\ attempts_log' = IF description_called(env_key)
                              THEN Append(attempts_log, DescriptionLog(resp))
                              ELSE attempts_log
           /\ total_tokens' = add_usage(total_tokens, description_usage(env_key, resp))
           /\ billed' = IF description_called(env_key) THEN Bill(resp) ELSE billed
           /\ IF d.kind = "ValueError"
              THEN /\ result' = Raise("RuntimeError", d.msg)
                   /\ pc' = "done"
                   /\ UNCHANGED <<categories, op>>
              ELSE /\ categories' = set_description(categories, op.category,
                                                    op.generated[op.idx],
                                                    batch_description(d))
                   /\ op' = [op EXCEPT !.idx = @ + 1,
                                       !.described = Append(@, [name |-> op.generated[op.idx],
                                                                text |-> d.text])]
                   /\ UNCHANGED <<pc, result>>
    /\ UNCHANGED <<env_key, token_usage, start_tokens, fs, apart>>

\* return generated_names
BatchReturn ==
    /\ pc = "batch"
    /\ op.idx > Len(op.generated)
    /\ result' = ReturnList(op.generated)
    /\ pc' = "done"
    /\ UNCHANGED <<env_key, total_tokens, categories, token_usage, op, calls,
                   billed, start_tokens, attempts_log, fs, apart>>

(***************************************************************************)
(* NameProject.context_aware_generate                                      *)
(***************************************************************************)
RunStatuses == {"in_progress", "completed", "failed", "cancelled", "expired"}
FailedStatuses == {"failed", "cancelled", "expired"}
TerminalStatuses == {"completed"} \cup FailedStatuses
NameAndText == <<"Z","e","d","\n","\n"," ","o","l","d"," ","\n","m","a","n">>
AssistantTexts == {PaddedJon, NameAndText}

NoAssistantMessage == "No response received from the assistant"

\* '\n'.join(lines)
RECURSIVE join_lines(_)
join_lines(lines) ==
    IF lines = <<>>
    THEN <<>>
    ELSE IF Len(lines) = 1
         THEN lines[1]
         ELSE lines[1] \o <<"\n">> \o join_lines(Tail(lines))

\* a parse that takes the whole response for the name unless it finds a
\* description
parsed_name_whole(want, text) ==
    LET lines == strip_nonblank(split_lines(strip(text)))
    IN  IF want /\ Len(lines) >= 2 THEN lines[1] ELSE strip(text)

\* the name and the description read from the assistant's text
parsed_name(want, text) ==
    LET lines == strip_nonblank(split_lines(strip(text)))
    IN  IF want
        THEN IF Len(lines) >= 2 THEN lines[1] ELSE strip(text)
        ELSE IF lines # <<>> THEN lines[1] ELSE <<>>

parsed_description(want, text) ==
    LET lines == strip_nonblank(split_lines(strip(text)))
    IN  IF want /\ Len(lines) >= 2 THEN join_lines(Tail(lines)) ELSE <<>>

\* the names of every category, for the assistant's instructions
RECURSIVE all_names(_)
all_names(cats) ==
    IF cats = <<>> THEN <<>> ELSE get_names(cats, Head(cats).cat) \o all_names(Tail(cats))

\* a call that leaves a missing category missing
ensure_category_never(cats, c) == cats

\* if category not in self.categories: self.add_category(category)
ensure_category(cats, c) == IF ~has_category(cats, c) THEN add_category(cats, c) ELSE cats

\* a failure of the body that is raised as it is
generation_error_unwrapped(m) == Raise("Exception", m)

\* except Exception as e: raise ValueError(f"Error in context-aware generation: {e}")
generation_error(m) == Raise("ValueError", m)

\* a loop that gives up on a failed run only
run_failed_only(status) == status = "failed"

\* if run.status in ["failed", "cancelled", "expired"]
run_failed(status) == status \in FailedStatuses

\* f"Assistant run failed with status: {run.status}"
run_failed_msg(status) ==
    CASE status = "failed" -> "Assistant run failed with status: failed"
      [] status = "cancelled" -> "Assistant run failed with status: cancelled"
      [] status = "expired" -> "Assistant run failed with status: expired"
      [] OTHER -> "Assistant run failed with status: "

\* a finally block that lets a failed cleanup step escape
after_cleanup_escalates(outcome, unlinked, deleted) ==
    IF unlinked /\ deleted THEN outcome ELSE Raise("OSError", "cleanup failed")

\* what the call returns or raises once both cleanup steps, each inside
\* try / except: pass, have been tried
after_cleanup(outcome, unlinked, deleted) == outcome

CagLog(what, ok) ==
    [call |-> what, outcome |-> IF ok THEN "accepted" ELSE "failed", text |-> <<>>,
     usage |-> 0]

\* except Exception as e: raise ValueError(...), on the way to the finally block
CagFail(m) ==
    /\ pc' = "cag_cleanup"
    /\ op' = [op EXCEPT !.outcome = generation_error(m)]

\* a provider call of the body that only has to succeed
CagCall(here, what, next, ok) ==
    /\ pc = here
    /\ calls' = calls + 1
    /\ attempts_log' = Append(attempts_log, CagLog(what, ok))
    /\ IF ok
       THEN /\ pc' = next
            /\ UNCHANGED op
       ELSE CagFail(ProviderError)
    /\ UNCHANGED <<env_key, total_tokens, categories, token_usage, result, billed,
                   start_tokens, fs, apart>>

\* the call: the category is created, the project is written to a temporary
\* file; "before" keeps the categories as they were when the call was made
ContextAwareGenerate(c, want) ==
    /\ Begin
    /\ \A i \in 1..Len(categories) : Len(categories[i].entries) < MaxEntries
    /\ categories' = ensure_category(categories, c)
    /\ fs' = [temp_file |-> TRUE, remote_file |-> FALSE]
    /\ calls' = 0
    /\ attempts_log' = <<>>
    /\ pc' = "cag_upload"
    /\ op' = [IdleOp EXCEPT !.name = "context_aware_generate", !.category = c,
                            !.want_desc = want, !.before = categories,
                            !.past_names = all_names(ensure_category(categories, c))]
    /\ result' = NoResult
    /\ UNCHANGED <<env_key, total_tokens, token_usage, billed, apart>>

\* client.files.create
CagUpload(ok) ==
    /\ pc = "cag_upload"
    /\ calls' = calls + 1
    /\ attempts_log' = Append(attempts_log, CagLog("files.create", ok))
    /\ IF ok
       THEN /\ pc' = "cag_assistant"
            /\ op' = [op EXCEPT !.file_obj = TRUE]
            /\ fs' = [fs EXCEPT !.remote_file = TRUE]
       ELSE /\ CagFail(ProviderError)
            /\ UNCHANGED fs
    /\ UNCHANGED <<env_key, total_tokens, categories, token_usage, result, billed,
                   start_tokens, apart>>

\* client.beta.assistants.create
CagAssistant(ok) == CagCall("cag_assistant", "assistants.create", "cag_thread", ok)

\* client.beta.threads.create
CagThread(ok) == CagCall("cag_thread", "threads.create", "cag_message", ok)

\* client.beta.threads.messages.create
CagMessage(ok) == CagCall("cag_message", "messages.create", "cag_run", ok)

\* client.beta.threads.runs.create
CagRun(ok, status) ==
    /\ pc = "cag_run"
    /\ calls' = calls + 1
    /\ attempts_log' = Append(attempts_log, CagLog("runs.create", ok))
    /\ IF ok
       THEN /\ pc' = "cag_poll"
            /\ op' = [op EXCEPT !.status = status]
       ELSE CagFail(ProviderError)
    /\ UNCHANGED <<env_key, total_tokens, categories, token_usage, result, billed,
                   start_tokens, fs, apart>>

\* a loop that gives up waiting after its first turn
run_pending_once(status, attempt) == status # "completed" /\ attempt < 1

\* while run.status != "completed"
run_pending(status, attempt) == status # "completed"

\* one turn of the polling loop: sleep, client.beta.threads.runs.retrieve
CagPoll(ok, status) ==
    /\ pc = "cag_poll"
    /\ run_pending(op.status, op.attempt)
    /\ op.attempt < MaxPolls
    /\ calls' = calls + 1
    /\ attempts_log' = Append(attempts_log, CagLog("runs.retrieve", ok))
    /\ IF ~ok
       THEN CagFail(ProviderError)
       ELSE IF run_failed(status)
            THEN /\ pc' = "cag_cleanup"
                 /\ op' = [op EXCEPT !.status = status, !.attempt = @ + 1,
                                     !.outcome = generation_error(run_failed_msg(status))]
            ELSE /\ op' = [op EXCEPT !.status = status, !.attempt = @ + 1]
                 /\ UNCHANGED pc
    /\ UNCHANGED <<env_key, total_tokens, categories, token_usage, result, billed,
                   start_tokens, fs, apart>>

\* a store that drops a name too similar to the names of the project
cag_store_filtered(cats, c, name, description, past) ==
    IF accepts(name, past) THEN set_description(cats, c, name, description) ELSE cats

\* self.add_name(category, name, description), the category being there
cag_store(cats, c, name, description, past) == set_description(cats, c, name, description)

\* client.beta.threads.messages.list, the parse and add_name
CagList(ok, has_message, text) ==
    /\ pc = "cag_poll"
    /\ ~run_pending(op.status, op.attempt)
    /\ calls' = calls + 1
    /\ attempts_log' = Append(attempts_log,
                               [CagLog("messages.list", ok) EXCEPT
                                   !.text = IF ok /\ has_message THEN text ELSE <<>>])
    /\ pc' = "cag_cleanup"
    /\ IF ~ok
       THEN /\ op' = [op EXCEPT !.outcome = generation_error(ProviderError)]
            /\ UNCHANGED categories
       ELSE IF ~has_message
            THEN /\ op' = [op EXCEPT !.outcome = generation_error(NoAssistantMessage)]
                 /\ UNCHANGED categories
            ELSE /\ categories' = cag_store(categories, op.category,
                                            parsed_name(op.want_desc, text),
                                            parsed_description(op.want_desc, text),
                                            op.past_names)
                 /\ op' = [op EXCEPT !.outcome = ReturnStr(parsed_name(op.want_desc, text))]
    /\ UNCHANGED <<env_key, total_tokens, token_usage, result, billed, start_tokens, fs, apart>>

\* finally: os.unlink(temp_file_path), client.files.delete(file_obj.id)
CagCleanup(unlinked, deleted) ==
    /\ pc = "cag_cleanup"
    /\ calls' = IF op.file_obj THEN calls + 1 ELSE calls
    /\ attempts_log' = IF op.file_obj
                       THEN Append(attempts_log, CagLog("files.delete", deleted))
                       ELSE attempts_log
    /\ fs' = [temp_file |-> fs.temp_file /\ ~unlinked,
              remote_file |-> fs.remote_file /\ ~(op.file_obj /\ deleted)]
    /\ op' = [op EXCEPT !.unlink = IF unlinked THEN "removed" ELSE "failed"]
    /\ result' = after_cleanup(op.outcome, unlinked, deleted)
    /\ pc' = "done"
    /\ UNCHANGED <<env_key, total_tokens, categories, token_usage, billed,
                   start_tokens, apart>>

(***************************************************************************)
(* The program: one caller, one call at a time.                            *)
(***************************************************************************)
Init ==
    /\ GenInit
    /\ tracker = 0
    /\ tracker_log = <<>>
    /\ sim_in = [new_name |-> <<>>, past_names |-> <<>>, threshold |-> 0]
    /\ sim_out = [done |-> FALSE, value |-> FALSE]

Next ==
    \/ Ack
    \/ \E b \in BOOLEAN : SetEnvKey(b)
    \/ \E n \in AddAmounts : AddUsage(n)
    \/ Reset
    \/ \E c \in CategoryLabels : AddCategory(c)
    \/ \E past \in PastNameLists, m \in 0..MaxAttempts : GenerateUniqueName(past, m)
    \/ \E resp \in NameResponses : GunAttempt(resp)
    \/ GunExhausted
    \/ \E resp \in DescriptionResponses : GenerateDescription(resp)
    \/ \E c \in CategoryLabels, past \in PastNameLists, want \in BOOLEAN,
          resp \in NameResponses : GenerateNameByCategory(c, past, want, resp)
    \/ \E resp \in DescriptionResponses : GncDescribe(resp)
    \/ \E c \in CategoryLabels, want \in BOOLEAN, resp \in BatchResponses :
          BatchGenerateNames(c, DefaultCount, want, resp)
    \/ BatchSkip
    \/ BatchInsert
    \/ \E resp \in DescriptionResponses : BatchDescribe(resp)
    \/ BatchReturn
    \/ \E c \in CategoryLabels, want \in BOOLEAN : ContextAwareGenerate(c, want)
    \/ \E ok \in BOOLEAN : CagUpload(ok)
    \/ \E ok \in BOOLEAN : CagAssistant(ok)
    \/ \E ok \in BOOLEAN : CagThread(ok)
    \/ \E ok \in BOOLEAN : CagMessage(ok)
    \/ \E ok \in BOOLEAN, status \in RunStatuses : CagRun(ok, status)
    \/ \E ok \in BOOLEAN, status \in RunStatuses : CagPoll(ok, status)
    \/ \E ok \in BOOLEAN, has_message \in BOOLEAN, text \in AssistantTexts :
          CagList(ok, has_message, text)
    \/ \E unlinked \in BOOLEAN, deleted \in BOOLEAN : CagCleanup(unlinked, deleted)

Spec == Init /\ [][Next]_vars

\* the generators of namegiver.py and the tracker, without a project
GenNext ==
    \/ Ack
    \/ \E b \in BOOLEAN : SetEnvKey(b)
    \/ \E n \in AddAmounts : AddUsage(n)
    \/ Reset
    \/ \E past \in PastNameLists, m \in 0..MaxAttempts : GenerateUniqueName(past, m)
    \/ \E resp \in NameResponses : GunAttempt(resp)
    \/ GunExhausted
    \/ \E resp \in DescriptionResponses : GenerateDescription(resp)

SpecGen == Init /\ [][GenNext]_vars

\* every call that reaches the provider, with and without the credential;
\* the responses report no usage
Unmetered(texts) == Responses(texts, {NoUsage})

KeyNext ==
    \/ Ack
    \/ \E b \in BOOLEAN : SetEnvKey(b)
    \/ \E c \in CategoryLabels : AddCategory(c)
    \/ \E past \in PastNameLists, m \in 0..MaxAttempts : GenerateUniqueName(past, m)
    \/ \E resp \in Unmetered(NameTexts) : GunAttempt(resp)
    \/ GunExhausted
    \/ \E resp \in Unmetered(DescriptionTexts) : GenerateDescription(resp)
    \/ \E c \in CategoryLabels, past \in PastNameLists, want \in BOOLEAN,
          resp \in Unmetered(NameTexts) : GenerateNameByCategory(c, past, want, resp)
    \/ \E resp \in Unmetered(DescriptionTexts) : GncDescribe(resp)
    \/ \E c \in CategoryLabels, want \in BOOLEAN, resp \in Unmetered(BatchTexts) :
          BatchGenerateNames(c, DefaultCount, want, resp)
    \/ BatchSkip
    \/ BatchInsert
    \/ \E resp \in Unmetered(DescriptionTexts) : BatchDescribe(resp)
    \/ BatchReturn
    \/ \E c \in CategoryLabels, want \in BOOLEAN : ContextAwareGenerate(c, want)
    \/ \E ok \in BOOLEAN : CagUpload(ok)
    \/ \E ok \in BOOLEAN : CagAssistant(ok)
    \/ \E ok \in BOOLEAN : CagThread(ok)
    \/ \E ok \in BOOLEAN : CagMessage(ok)
    \/ \E ok \in BOOLEAN, status \in RunStatuses : CagRun(ok, status)
    \/ \E ok \in BOOLEAN, status \in RunStatuses : CagPoll(ok, status)
    \/ \E ok \in BOOLEAN, has_message \in BOOLEAN, text \in AssistantTexts :
          CagList(ok, has_message, text)
    \/ \E unlinked \in BOOLEAN, deleted \in BOOLEAN : CagCleanup(unlinked, deleted)

SpecKey == Init /\ [][KeyNext]_vars

\* every call that adds to the tracker
UsageNext ==
    \/ Ack
    \/ \E b \in BOOLEAN : SetEnvKey(b)
    \/ \E n \in AddAmounts : AddUsage(n)
    \/ Reset
    \/ \E c \in CategoryLabels : AddCategory(c)
    \/ \E past \in PastNameLists, m \in 0..MaxAttempts : GenerateUniqueName(past, m)
    \/ \E resp \in NameResponses : GunAttempt(resp)
    \/ GunExhausted
    \/ \E resp \in DescriptionResponses : GenerateDescription(resp)
    \/ \E c \in CategoryLabels, past \in PastNameLists, want \in BOOLEAN,
          resp \in NameResponses : GenerateNameByCategory(c, past, want, resp)
    \/ \E resp \in DescriptionResponses : GncDescribe(resp)
    \/ \E c \in CategoryLabels, want \in BOOLEAN, resp \in Responses({Zed}, UsageVals) :
          BatchGenerateNames(c, DefaultCount, want, resp)
    \/ BatchSkip
    \/ BatchInsert
    \/ \E resp \in DescriptionResponses : BatchDescribe(resp)
    \/ BatchReturn

SpecUsage == Init /\ [][UsageNext]_vars

(***************************************************************************)
(* A TokenTracker of its own, as a test constructs it.                     *)
(***************************************************************************)
TrackerAmounts == {0, 25, 50}

TrackerInit ==
    /\ GenInit
    /\ tracker = 0
    /\ tracker_log = <<>>
    /\ sim_in = [new_name |-> <<>>, past_names |-> <<>>, threshold |-> 0]
    /\ sim_out = [done |-> FALSE, value |-> FALSE]

\* tracker.add_usage(n)
TrackerAddUsage(n) ==
    /\ Len(tracker_log) < MaxOps
    /\ tracker' = add_usage(tracker, n)
    /\ tracker_log' = Append(tracker_log, [op |-> "add_usage", n |-> n])
    /\ UNCHANGED <<genvars, simvars, filevars, racevars>>

\* tracker.reset()
TrackerReset ==
    /\ Len(tracker_log) < MaxOps
    /\ tracker' = reset(tracker)
    /\ tracker_log' = Append(tracker_log, [op |-> "reset", n |-> 0])
    /\ UNCHANGED <<genvars, simvars, filevars, racevars>>

TrackerNext ==
    \/ \E n \in TrackerAmounts : TrackerAddUsage(n)
    \/ TrackerReset

SpecTracker == TrackerInit /\ [][TrackerNext]_vars

(***************************************************************************)
(* is_too_similar on its own.                                              *)
(***************************************************************************)
SimAlphabet == {"a", "A", "b"}

\* the strings over an alphabet, up to a length
RECURSIVE StringsUpTo(_, _)
StringsUpTo(alphabet, n) ==
    IF n = 0
    THEN {<<>>}
    ELSE LET shorter == StringsUpTo(alphabet, n - 1)
         IN  shorter \cup {Append(s, c) : s \in shorter, c \in alphabet}

RefPool == {<<>>, <<"a">>, <<"B">>, <<"A","b">>, <<"b","a">>, <<"a","b","b">>}

\* the sequences over a set, up to a length
RECURSIVE ListsUpTo(_, _)
ListsUpTo(pool, n) ==
    IF n = 0
    THEN {<<>>}
    ELSE LET shorter == ListsUpTo(pool, n - 1)
         IN  shorter \cup {Append(l, r) : l \in shorter, r \in pool}

Alexander == <<"A","l","e","x","a","n","d","e","r">>
Alexandra == <<"A","l","e","x","a","n","d","r","a">>
Bob == <<"B","o","b">>
Robert == <<"R","o","b","e","r","t">>
Sam == <<"S","a","m">>
Samuel == <<"S","a","m","u","e","l">>
Samantha == <<"S","a","m","a","n","t","h","a">>

SimCall(n, p, t) == [new_name |-> n, past_names |-> p, threshold |-> t]

\* the cases of test_is_too_similar
TestCases ==
    {SimCall(John, <<Jon>>, 2), SimCall(Alexander, <<Alexandra>>, 2),
     SimCall(Bob, <<Robert>>, 2), SimCall(Sam, <<Samuel, Samantha>>, 2),
     SimCall(<<>>, <<>>, 2)}

SimInputs ==
    TestCases
    \cup {SimCall(n, p, t) : n \in StringsUpTo(SimAlphabet, MaxLen),
                             p \in ListsUpTo(RefPool, MaxRefs),
                             t \in 0..MaxThreshold}

SimInit ==
    /\ GenInit
    /\ tracker = 0
    /\ tracker_log = <<>>
    /\ sim_in \in SimInputs
    /\ sim_out = [done |-> FALSE, value |-> FALSE]

\* is_too_similar(new_name, past_names, threshold) is called
SimApply ==
    /\ ~sim_out.done
    /\ sim_out' = [done |-> TRUE,
                   value |-> is_too_similar(sim_in.new_name, sim_in.past_names,
                                            sim_in.threshold)]
    /\ UNCHANGED <<sim_in, genvars, trackervars, filevars, racevars>>

SimNext == SimApply

SpecSim == SimInit /\ [][SimNext]_vars

(***************************************************************************)
(* The project's names: add_name, get_names, get_description               *)
(***************************************************************************)
MaxNames == 3

ProjectLabels == {"characters", "locations"}
Aria == <<"A","r","i","a">>
Quoted == <<"a","\"","\\","\n","b">>
ProjectNames == {Aria, Zed}
ProjectDescriptions == {<<>>, Quoted}

CategoryMissing == "Category does not exist"
NameMissing == "Name does not exist"

\* the names of the whole project, category by category
RECURSIVE count_names(_)
count_names(cats) ==
    IF cats = <<>> THEN 0 ELSE Len(Head(cats).entries) + count_names(Tail(cats))

\* name in self.categories[category]
has_name(cats, c, n) == \E i \in 1..Len(entries_of(cats, c)) : entries_of(cats, c)[i].name = n

\* self.categories[category][name]
description_of(cats, c, n) ==
    LET entries == entries_of(cats, c)
    IN  entries[CHOOSE i \in 1..Len(entries) : entries[i].name = n].description

\* an add_name that writes the name into every category of the project
add_name_everywhere(cats, c, n, d) ==
    [i \in 1..Len(cats) |-> [cats[i] EXCEPT !.entries = dict_set(@, n, d)]]

\* an add_name that keeps the description a name already has
add_name_keeps_first(cats, c, n, d) ==
    IF has_name(cats, c, n) THEN cats ELSE set_description(cats, c, n, d)

\* the assignment of NameProject.add_name, once the category is known to exist
add_name(cats, c, n, d) == set_description(cats, c, n, d)

\* if category not in self.categories
category_missing(cats, c) == ~has_category(cats, c)

\* a call on the project begins and ends in one step
ProjectCall(what, c, n, d) ==
    /\ pc = "idle"
    /\ pc' = "done"
    /\ op' = [IdleOp EXCEPT !.name = what, !.category = c, !.item = n, !.text = d]
    /\ UNCHANGED <<env_key, total_tokens, token_usage, calls, billed, start_tokens,
                   attempts_log, fs, trackervars, simvars, racevars>>

\* an add_name that makes the category it does not find
add_name_call_creates(cats, c, n, d) ==
    [categories |-> add_name(add_category(cats, c), c, n, d), result |-> ReturnNone]

\* NameProject.add_name: the categories it leaves and what it returns or raises
add_name_call(cats, c, n, d) ==
    IF category_missing(cats, c)
    THEN [categories |-> cats, result |-> Raise("ValueError", CategoryMissing)]
    ELSE [categories |-> add_name(cats, c, n, d), result |-> ReturnNone]

\* project.add_name(c, n, d)
AddName(c, n, d) ==
    /\ ProjectCall("add_name", c, n, d)
    /\ IF has_category(categories, c)
       THEN has_name(categories, c, n) \/ count_names(categories) < MaxNames
       ELSE TRUE
    /\ categories' = add_name_call(categories, c, n, d).categories
    /\ result' = add_name_call(categories, c, n, d).result
    /\ UNCHANGED filevars

\* project.get_names(c)
GetNames(c) ==
    /\ ProjectCall("get_names", c, <<>>, <<>>)
    /\ result' = IF category_missing(categories, c)
                 THEN Raise("ValueError", CategoryMissing)
                 ELSE ReturnList(get_names(categories, c))
    /\ UNCHANGED <<categories, filevars>>

\* project.get_description(c, n)
GetDescription(c, n) ==
    /\ ProjectCall("get_description", c, n, <<>>)
    /\ result' = IF category_missing(categories, c)
                 THEN Raise("ValueError", CategoryMissing)
                 ELSE IF ~has_name(categories, c, n)
                 THEN Raise("ValueError", NameMissing)
                 ELSE ReturnStr(description_of(categories, c, n))
    /\ UNCHANGED <<categories, filevars>>

ProjectNext ==
    \/ Ack
    \/ \E c \in ProjectLabels : AddCategory(c)
    \/ \E c \in ProjectLabels, n \in ProjectNames, d \in ProjectDescriptions : AddName(c, n, d)
    \/ \E c \in ProjectLabels : GetNames(c)
    \/ \E c \in ProjectLabels, n \in ProjectNames : GetDescription(c, n)

SpecProject == Init /\ [][ProjectNext]_vars

(***************************************************************************)
(* Saving a project to a file and loading it back.                         *)
(***************************************************************************)
SavedUsages == {0, 7, 105}

\* the project as save_project reads it
CurrentProject == Project(project_name, project_description, categories, token_usage)

\* the same project, with its values as json.load returns them
AsLoaded(project) ==
    Project(JStr(project.name), JStr(project.description),
            [i \in 1..Len(project.categories) |->
                [cat |-> label_str(project.categories[i].cat),
                 entries |-> [j \in 1..Len(project.categories[i].entries) |->
                     [name |-> project.categories[i].entries[j].name,
                      description |->
                          JStr(project.categories[i].entries[j].description)]]]],
            JNum(project.token_usage))

\* save_project(project, path); open(path, 'w') may fail
SaveProject(writable) ==
    /\ ProjectCall("save_project", "", <<>>, <<>>)
    /\ IF writable
       THEN /\ disk' = FileOf(save_project(CurrentProject))
            /\ saved' = Loaded("project", AsLoaded(CurrentProject))
            /\ result' = ReturnNone
       ELSE /\ result' = Raise("IOError", "Error saving project")
            /\ UNCHANGED <<disk, saved>>
    /\ UNCHANGED <<categories, project_name, project_description, loaded>>

\* load_project(path)
LoadProject ==
    /\ ProjectCall("load_project", "", <<>>, <<>>)
    /\ IF ~disk.exists
       THEN /\ result' = Raise("FileNotFoundError", "Project file not found")
            /\ UNCHANGED loaded
       ELSE LET got == load_project(disk.text)
            IN  /\ loaded' = got
                /\ result' = IF got.kind = "project"
                             THEN ReturnNone
                             ELSE Raise(got.kind, "Invalid project file")
    /\ UNCHANGED <<categories, project_name, project_description, disk, saved>>

\* the dicts of name -> description a category can hold
EntryLists ==
    {l \in ListsUpTo({[name |-> n, description |-> d] :
                          n \in ProjectNames, d \in ProjectDescriptions}, MaxEntries) :
        \A i, j \in 1..Len(l) : l[i].name = l[j].name => i = j}

\* the categories add_category and add_name can have built
CategoryDicts ==
    {<<>>}
    \cup {<<[cat |-> c, entries |-> e]>> : c \in ProjectLabels, e \in EntryLists}
    \cup {cats \in {<<[cat |-> c1, entries |-> e1], [cat |-> c2, entries |-> e2]>> :
                        c1 \in ProjectLabels, c2 \in ProjectLabels,
                        e1 \in EntryLists, e2 \in EntryLists} :
              cats[1].cat # cats[2].cat}

FileInit ==
    /\ env_key = TRUE
    /\ total_tokens = 0
    /\ categories \in CategoryDicts
    /\ token_usage \in SavedUsages
    /\ pc = "idle"
    /\ op = IdleOp
    /\ result = NoResult
    /\ calls = 0
    /\ billed = 0
    /\ start_tokens = 0
    /\ attempts_log = <<>>
    /\ fs = [temp_file |-> FALSE, remote_file |-> FALSE]
    /\ tracker = 0
    /\ tracker_log = <<>>
    /\ sim_in = [new_name |-> <<>>, past_names |-> <<>>, threshold |-> 0]
    /\ sim_out = [done |-> FALSE, value |-> FALSE]
    /\ project_name \in {MyWorld, Quoted}
    /\ project_description \in ProjectDescriptions
    /\ disk = NoFile
    /\ saved = NoProject
    /\ loaded = NoProject
    /\ threads = NoThreads

FileNext ==
    \/ Ack
    \/ \E writable \in BOOLEAN : SaveProject(writable)
    \/ LoadProject

SpecFile == FileInit /\ [][FileNext]_vars

(***************************************************************************)
(* batch_generate_names on a project, with the responses the provider can  *)
(* give: one name, two names that differ by case only, nothing but blanks. *)
(***************************************************************************)
ZedTwice == <<"Z","e","d"," ","\n"," ","\n"," ","z","e","d","\n">>
BlankLines == <<" ","\n"," ">>
BatchCounts == {1, DefaultCount}
BatchCandidates == Responses({Zed, ZedTwice, BlankLines}, UsageVals)

BatchNext ==
    \/ Ack
    \/ \E b \in BOOLEAN : SetEnvKey(b)
    \/ \E c \in CategoryLabels : AddCategory(c)
    \/ \E c \in CategoryLabels, count \in BatchCounts, want \in BOOLEAN,
          resp \in BatchCandidates : BatchGenerateNames(c, count, want, resp)
    \/ BatchSkip
    \/ BatchInsert
    \/ \E resp \in DescriptionResponses : BatchDescribe(resp)
    \/ BatchReturn

SpecBatch == Init /\ [][BatchNext]_vars

(***************************************************************************)
(* NameProject.generate_description: a description for a stored name       *)
(***************************************************************************)
\* a store that keeps the old description when the provider call failed
store_description_if_ok(cats, c, n, outcome) ==
    IF outcome.kind = "str" THEN set_description(cats, c, n, outcome.text) ELSE cats

\* self.categories[category][name] = description, reached unless the call raised
store_description(cats, c, n, outcome) ==
    IF outcome.kind = "ValueError" THEN cats ELSE set_description(cats, c, n, outcome.text)

\* the two checks before the provider is asked
description_target_missing(cats, c, n) ==
    IF category_missing(cats, c) THEN TRUE ELSE ~has_name(cats, c, n)

\* project.generate_description(c, n)
ProjectGenerateDescription(c, n, resp) ==
    /\ Begin
    /\ op' = [IdleOp EXCEPT !.name = "NameProject.generate_description",
                            !.category = c, !.item = n]
    /\ pc' = "done"
    /\ IF description_target_missing(categories, c, n)
       THEN /\ result' = Raise("ValueError", IF category_missing(categories, c)
                                              THEN CategoryMissing ELSE NameMissing)
            /\ calls' = 0
            /\ attempts_log' = <<>>
            /\ UNCHANGED <<total_tokens, billed, categories>>
       ELSE LET d == description_outcome(env_key, resp)
            IN  /\ calls' = IF description_called(env_key) THEN 1 ELSE 0
                /\ attempts_log' = IF description_called(env_key)
                                   THEN <<DescriptionLog(resp)>> ELSE <<>>
                /\ total_tokens' = add_usage(total_tokens, description_usage(env_key, resp))
                /\ billed' = IF description_called(env_key) THEN Bill(resp) ELSE billed
                /\ categories' = store_description(categories, c, n, d)
                /\ result' = d
    /\ UNCHANGED <<env_key, token_usage, fs, apart>>

(***************************************************************************)
(* The operations of one project, the tracker's reset beside them.         *)
(***************************************************************************)
StoreTexts == Responses({John}, 0..MaxUsage)
StoreDescriptions == Responses(DescriptionTexts, {MaxUsage})

StoreNext ==
    \/ Ack
    \/ Reset
    \/ \E c \in CategoryLabels : AddCategory(c)
    \/ \E c \in CategoryLabels : AddName(c, Zed, <<>>)
    \/ \E c \in CategoryLabels : GetNames(c)
    \/ \E c \in CategoryLabels : GetDescription(c, Zed)
    \/ \E c \in CategoryLabels, resp \in StoreDescriptions :
          ProjectGenerateDescription(c, Zed, resp)
    \/ \E c \in CategoryLabels, want \in BOOLEAN, resp \in StoreTexts :
          BatchGenerateNames(c, DefaultCount, want, resp)
    \/ BatchSkip
    \/ BatchInsert
    \/ \E resp \in StoreDescriptions : BatchDescribe(resp)
    \/ BatchReturn
    \/ \E c \in CategoryLabels, want \in BOOLEAN : ContextAwareGenerate(c, want)
    \/ \E ok \in BOOLEAN : CagUpload(ok)
    \/ \E ok \in BOOLEAN : CagAssistant(ok)
    \/ \E ok \in BOOLEAN : CagThread(ok)
    \/ \E ok \in BOOLEAN : CagMessage(ok)
    \/ \E ok \in BOOLEAN, status \in RunStatuses : CagRun(ok, status)
    \/ \E ok \in BOOLEAN, status \in RunStatuses : CagPoll(ok, status)
    \/ \E ok \in BOOLEAN, has_message \in BOOLEAN : CagList(ok, has_message, NameAndText)
    \/ \E unlinked \in BOOLEAN, deleted \in BOOLEAN : CagCleanup(unlinked, deleted)

SpecStore == Init /\ [][StoreNext]_vars

\* the life of a project that knows one name, saved to a file now and then
LifetimeTexts == Responses({Zed}, 0..MaxUsage)

LifetimeNext ==
    \/ Ack
    \/ Reset
    \/ \E c \in CategoryLabels : AddCategory(c)
    \/ \E c \in CategoryLabels : AddName(c, Zed, <<>>)
    \/ \E c \in CategoryLabels : GetNames(c)
    \/ \E c \in CategoryLabels : GetDescription(c, Zed)
    \/ \E c \in CategoryLabels, resp \in StoreDescriptions :
          ProjectGenerateDescription(c, Zed, resp)
    \/ \E c \in CategoryLabels, want \in BOOLEAN, resp \in LifetimeTexts :
          BatchGenerateNames(c, DefaultCount, want, resp)
    \/ BatchSkip
    \/ BatchInsert
    \/ \E resp \in StoreDescriptions : BatchDescribe(resp)
    \/ BatchReturn
    \/ \E c \in CategoryLabels, want \in BOOLEAN : ContextAwareGenerate(c, want)
    \/ \E ok \in BOOLEAN : CagUpload(ok)
    \/ \E ok \in BOOLEAN : CagAssistant(ok)
    \/ \E ok \in BOOLEAN : CagThread(ok)
    \/ \E ok \in BOOLEAN : CagMessage(ok)
    \/ \E ok \in BOOLEAN, status \in RunStatuses : CagRun(ok, status)
    \/ \E ok \in BOOLEAN, status \in RunStatuses : CagPoll(ok, status)
    \/ \E ok \in BOOLEAN, has_message \in BOOLEAN : CagList(ok, has_message, NameAndText)
    \/ \E unlinked \in BOOLEAN, deleted \in BOOLEAN : CagCleanup(unlinked, deleted)
    \/ \E writable \in BOOLEAN : SaveProject(writable)

SpecLifetime == Init /\ [][LifetimeNext]_vars

(***************************************************************************)
(* context_aware_generate on a project of two categories, with the texts   *)
(* an assistant can answer: one padded line, a name and two more lines     *)
(* between blank ones, nothing but blanks.                                 *)
(***************************************************************************)
CagTexts == {PaddedJon, NameAndText, BlankLines}

CagNext ==
    \/ Ack
    \/ \E c \in CategoryLabels : AddCategory(c)
    \/ \E c \in CategoryLabels : AddName(c, Zed, Quoted)
    \/ \E c \in ProjectLabels, want \in BOOLEAN : ContextAwareGenerate(c, want)
    \/ \E ok \in BOOLEAN : CagUpload(ok)
    \/ \E ok \in BOOLEAN : CagAssistant(ok)
    \/ \E ok \in BOOLEAN : CagThread(ok)
    \/ \E ok \in BOOLEAN : CagMessage(ok)
    \/ \E ok \in BOOLEAN, status \in RunStatuses : CagRun(ok, status)
    \/ \E ok \in BOOLEAN, status \in RunStatuses : CagPoll(ok, status)
    \/ \E ok \in BOOLEAN, has_message \in BOOLEAN, text \in CagTexts :
          CagList(ok, has_message, text)
    \/ \E unlinked \in BOOLEAN, deleted \in BOOLEAN : CagCleanup(unlinked, deleted)

SpecCag == Init /\ [][CagNext]_vars

\* one turn of the polling loop on a run that keeps the status it ended with
CagPollRun(ok, status) ==
    /\ op.status \in TerminalStatuses => status = op.status
    /\ CagPoll(ok, status)

PollTurn == \E ok \in BOOLEAN, status \in RunStatuses : CagPollRun(ok, status)

ReadMessages ==
    \E ok \in BOOLEAN, has_message \in BOOLEAN : CagList(ok, has_message, PaddedJon)

CagLiveNext ==
    \/ Ack
    \/ \E c \in CategoryLabels : AddCategory(c)
    \/ \E c \in CategoryLabels, want \in BOOLEAN : ContextAwareGenerate(c, want)
    \/ \E ok \in BOOLEAN : CagUpload(ok)
    \/ \E ok \in BOOLEAN : CagAssistant(ok)
    \/ \E ok \in BOOLEAN : CagThread(ok)
    \/ \E ok \in BOOLEAN : CagMessage(ok)
    \/ \E ok \in BOOLEAN, status \in RunStatuses : CagRun(ok, status)
    \/ PollTurn
    \/ ReadMessages
    \/ \E unlinked \in BOOLEAN, deleted \in BOOLEAN : CagCleanup(unlinked, deleted)

\* the thread that runs the call is never starved: the loop takes its next
\* turn, and the statement after the loop is executed
SpecCagLive ==
    /\ Init
    /\ [][CagLiveNext]_vars
    /\ WF_vars(PollTurn)
    /\ WF_vars(ReadMessages)

(***************************************************************************)
(* load_project on the files it can find at the path.                      *)
(***************************************************************************)
\* an empty file: (no text)
EmptyFile ==
    <<>>

\* "\"": {"name": "a"
TruncatedFile ==
    <<"{","\"","n","a","m","e","\"",":"," ","\"","a","\"">>

\* "]": []
TopLevelArray ==
    <<"[","]">>

\* "7": 7
TopLevelNumber ==
    <<"7">>

\* "}": {"categories": {}}
NoNameKey ==
    <<"{","\"","c","a","t","e","g","o","r","i","e","s","\"",":"," ","{","}",
      "}">>

\* "}": {"name": "a"}
NoCategoriesKey ==
    <<"{","\"","n","a","m","e","\"",":"," ","\"","a","\"","}">>

\* "}": {"name": "a", "categories": ["c"]}
CategoriesArray ==
    <<"{","\"","n","a","m","e","\"",":"," ","\"","a","\"",","," ","\"","c",
      "a","t","e","g","o","r","i","e","s","\"",":"," ","[","\"","c","\"","]",
      "}">>

\* "}": {"name": "a", "categories": {"c": "Zed"}}
EntriesString ==
    <<"{","\"","n","a","m","e","\"",":"," ","\"","a","\"",","," ","\"","c",
      "a","t","e","g","o","r","i","e","s","\"",":"," ","{","\"","c","\"",":",
      " ","\"","Z","e","d","\"","}","}">>

\* "}": {"name": "a", "categories": {"c": ["Zed", "Jon"], "d": []}, "token_usage": 7}
LegacyFile ==
    <<"{","\"","n","a","m","e","\"",":"," ","\"","a","\"",","," ","\"","c",
      "a","t","e","g","o","r","i","e","s","\"",":"," ","{","\"","c","\"",":",
      " ","[","\"","Z","e","d","\"",","," ","\"","J","o","n","\"","]",","," ",
      "\"","d","\"",":"," ","[","]","}",","," ","\"","t","o","k","e","n","_",
      "u","s","a","g","e","\"",":"," ","7","}">>

\* "}": {"name": "a", "categories": {"c": ["Zed"]}}
LegacyNoUsage ==
    <<"{","\"","n","a","m","e","\"",":"," ","\"","a","\"",","," ","\"","c",
      "a","t","e","g","o","r","i","e","s","\"",":"," ","{","\"","c","\"",":",
      " ","[","\"","Z","e","d","\"","]","}","}">>

\* "}": {"name": "a", "categories": {"c": {"Zed": "", "Jon": "b"}, "d": {}}, "token_usage": 7}
CurrentFile ==
    <<"{","\"","n","a","m","e","\"",":"," ","\"","a","\"",","," ","\"","c",
      "a","t","e","g","o","r","i","e","s","\"",":"," ","{","\"","c","\"",":",
      " ","{","\"","Z","e","d","\"",":"," ","\"","\"",","," ","\"","J","o",
      "n","\"",":"," ","\"","b","\"","}",","," ","\"","d","\"",":"," ","{",
      "}","}",","," ","\"","t","o","k","e","n","_","u","s","a","g","e","\"",
      ":"," ","7","}">>

InvalidFiles ==
    {EmptyFile, TruncatedFile, TopLevelArray, TopLevelNumber, NoNameKey,
     NoCategoriesKey, CategoriesArray, EntriesString}
LegacyFiles == {LegacyFile, LegacyNoUsage}
FileTexts == InvalidFiles \cup LegacyFiles \cup {CurrentFile}

\* another program leaves a file at the path, or removes it
PutFile(file) ==
    /\ pc = "idle"
    /\ disk # file
    /\ disk' = file
    /\ saved' = NoProject
    /\ UNCHANGED <<genvars, trackervars, simvars, racevars, project_name,
                   project_description, loaded>>

LoadNext ==
    \/ Ack
    \/ \E c \in CategoryLabels : AddCategory(c)
    \/ \E t \in FileTexts : PutFile(FileOf(t))
    \/ PutFile(NoFile)
    \/ \E writable \in BOOLEAN : SaveProject(writable)
    \/ LoadProject

SpecLoad == Init /\ [][LoadNext]_vars

(***************************************************************************)
(* Two callers at once on the shared tracker and on one project. Nothing   *)
(* in the code takes a lock: self.total_tokens += n and self.token_usage   *)
(* += n are a read and a later write, and batch_generate_names waits for   *)
(* the provider between reading the category's names and adding to it.     *)
(***************************************************************************)
Callers == {1, 2}
LowerZed == <<"z","e","d">>
RaceResponses == Responses({Zed, LowerZed}, {MaxUsage})
RaceAmounts == {1}

\* a caller between two calls
IdleThread ==
    [pc |-> "idle", n |-> 0, read |-> 0, past_names |-> <<>>, generated |-> <<>>,
     idx |-> 0, added |-> 0, added_to_project |-> 0]

\* a caller whose call has returned or raised: its locals are gone
Returned(t) == [IdleThread EXCEPT !.added = t.added, !.added_to_project = t.added_to_project]

\* what all callers together have asked the tracker, and the project, to add
RECURSIVE Owed(_, _)
Owed(t, field) ==
    IF t = <<>> THEN 0 ELSE Head(t)[field] + Owed(Tail(t), field)

\* a store that takes the total as it is by now
stored_total_atomic(read, current, n) == current + n

\* the write of x += n: the value read before, plus n
stored_total(read, current, n) == read + n

\* a check against the names the category holds by now
race_accepts_current(name, past, current) == accepts(name, current)

\* if not is_too_similar(name, past_names), past_names being the caller's list
race_accepts(name, past, current) == accepts(name, past)

\* a project with its category, before the callers start
RaceInit ==
    /\ env_key = TRUE
    /\ total_tokens = 0
    /\ categories \in {add_category(<<>>, c) : c \in CategoryLabels}
    /\ token_usage = 0
    /\ pc = "idle"
    /\ op = IdleOp
    /\ result = NoResult
    /\ calls = 0
    /\ billed = 0
    /\ start_tokens = 0
    /\ attempts_log = <<>>
    /\ fs = [temp_file |-> FALSE, remote_file |-> FALSE]
    /\ project_name = MyWorld
    /\ project_description = <<>>
    /\ disk = NoFile
    /\ saved = NoProject
    /\ loaded = NoProject
    /\ threads = NoThreads
    /\ tracker = 0
    /\ tracker_log = <<>>
    /\ sim_in = [new_name |-> <<>>, past_names |-> <<>>, threshold |-> 0]
    /\ sim_out = [done |-> FALSE, value |-> FALSE]

\* the two callers come to life
RaceStart ==
    /\ threads = NoThreads
    /\ pc = "idle"
    /\ threads' = [c \in Callers |-> IdleThread]
    /\ UNCHANGED <<genvars, trackervars, simvars, filevars>>

\* a step of a caller that leaves what the other caller and the single caller
\* of pc and op have
RaceStep(c, next) ==
    /\ threads # NoThreads
    /\ threads' = [threads EXCEPT ![c] = next]
    /\ UNCHANGED <<env_key, pc, op, result, calls, billed, start_tokens, attempts_log,
                   fs, trackervars, simvars, filevars>>

\* a caller may start another call
RaceMayBegin(c) ==
    /\ threads # NoThreads
    /\ threads[c].pc = "idle"
    /\ Owed(threads, "added") <= MaxTotal

\* token_tracker.add_usage(n): self.total_tokens is read
RaceAddUsage(c, n) ==
    /\ RaceMayBegin(c)
    /\ RaceStep(c, [threads[c] EXCEPT !.pc = "add_usage", !.n = n,
                                      !.read = total_tokens, !.added = @ + n])
    /\ UNCHANGED <<total_tokens, categories, token_usage>>

\* ... and the sum is written back
RaceAddUsageStore(c) ==
    /\ threads # NoThreads
    /\ threads[c].pc = "add_usage"
    /\ total_tokens' = stored_total(threads[c].read, total_tokens, threads[c].n)
    /\ RaceStep(c, Returned(threads[c]))
    /\ UNCHANGED <<categories, token_usage>>

\* project.batch_generate_names(category, prompt): up to the provider call
RaceBatch(c, category) ==
    /\ RaceMayBegin(c)
    /\ IF ~has_category(categories, category)
       THEN RaceStep(c, Returned(threads[c]))
       ELSE RaceStep(c, [threads[c] EXCEPT !.pc = "asked",
                                           !.past_names = get_names(categories, category),
                                           !.generated = <<>>, !.idx = 1])
    /\ UNCHANGED <<total_tokens, categories, token_usage>>

\* the provider answers; token_tracker.add_usage reads the total
RaceBatchAnswer(c, resp) ==
    /\ threads # NoThreads
    /\ threads[c].pc = "asked"
    /\ IF resp.kind # "ok"
       THEN RaceStep(c, Returned(threads[c]))
       ELSE RaceStep(c, [threads[c] EXCEPT !.pc = "tracker",
                                           !.generated = candidate_names(resp.text),
                                           !.n = batch_usage(resp),
                                           !.read = total_tokens,
                                           !.added = @ + batch_usage(resp)])
    /\ UNCHANGED <<total_tokens, categories, token_usage>>

\* token_tracker.add_usage writes the total
RaceBatchTracker(c) ==
    /\ threads # NoThreads
    /\ threads[c].pc = "tracker"
    /\ total_tokens' = stored_total(threads[c].read, total_tokens, threads[c].n)
    /\ RaceStep(c, [threads[c] EXCEPT !.pc = "usage"])
    /\ UNCHANGED <<categories, token_usage>>

\* self.token_usage += ...: the read
RaceBatchUsage(c) ==
    /\ threads # NoThreads
    /\ threads[c].pc = "usage"
    /\ RaceStep(c, [threads[c] EXCEPT !.pc = "usage_store", !.read = token_usage,
                                      !.added_to_project = @ + threads[c].n])
    /\ UNCHANGED <<total_tokens, categories, token_usage>>

\* self.token_usage += ...: the write
RaceBatchUsageStore(c) ==
    /\ threads # NoThreads
    /\ threads[c].pc = "usage_store"
    /\ token_usage' = stored_total(threads[c].read, token_usage, threads[c].n)
    /\ RaceStep(c, [threads[c] EXCEPT !.pc = "loop"])
    /\ UNCHANGED <<total_tokens, categories>>

\* one turn of the loop over the generated names, or the return after it
RaceBatchLoop(c, category) ==
    /\ threads # NoThreads
    /\ threads[c].pc = "loop"
    /\ has_category(categories, category)
    /\ IF threads[c].idx > Len(threads[c].generated)
       THEN /\ RaceStep(c, Returned(threads[c]))
            /\ UNCHANGED categories
       ELSE /\ RaceStep(c, [threads[c] EXCEPT !.idx = @ + 1])
            /\ categories' =
                  IF race_accepts(threads[c].generated[threads[c].idx],
                                  threads[c].past_names, get_names(categories, category))
                  THEN set_description(categories, category,
                                       threads[c].generated[threads[c].idx], <<>>)
                  ELSE categories
    /\ UNCHANGED <<total_tokens, token_usage>>

RaceNext ==
    \/ RaceStart
    \/ \E c \in Callers, n \in RaceAmounts : RaceAddUsage(c, n)
    \/ \E c \in Callers : RaceAddUsageStore(c)
    \/ \E c \in Callers, category \in CategoryLabels : RaceBatch(c, category)
    \/ \E c \in Callers, resp \in RaceResponses : RaceBatchAnswer(c, resp)
    \/ \E c \in Callers : RaceBatchTracker(c)
    \/ \E c \in Callers : RaceBatchUsage(c)
    \/ \E c \in Callers : RaceBatchUsageStore(c)
    \/ \E c \in Callers, category \in CategoryLabels : RaceBatchLoop(c, category)

SpecRace == RaceInit /\ [][RaceNext]_vars

(***************************************************************************)
(* The order of the categories and of the names, kept through add_name,    *)
(* get_names, save_project and load_project.                               *)
(***************************************************************************)
\* the add_name calls: two names, and a second description for the first
OrderAdds == {<<Aria, <<>>>>, <<Zed, <<>>>>, <<Aria, Quoted>>}

\* the category the names go to; the other one stays empty
OrderCategory == "characters"

OrderNext ==
    \/ Ack
    \/ \E c \in ProjectLabels : AddCategory(c)
    \/ \E a \in OrderAdds : AddName(OrderCategory, a[1], a[2])
    \/ GetNames(OrderCategory)
    \/ \E writable \in BOOLEAN : SaveProject(writable)
    \/ LoadProject

SpecOrder == Init /\ [][OrderNext]_vars

(***************************************************************************)
(* context_aware_generate on a run that can also report that it is queued  *)
(* or waits for an action.                                                 *)
(***************************************************************************)
WaitingStatuses == {"queued", "in_progress", "requires_action"}
PollStatuses == RunStatuses \cup WaitingStatuses

PollNext ==
    \/ Ack
    \/ \E c \in CategoryLabels : AddCategory(c)
    \/ \E c \in CategoryLabels, want \in BOOLEAN : ContextAwareGenerate(c, want)
    \/ \E ok \in BOOLEAN : CagUpload(ok)
    \/ \E ok \in BOOLEAN : CagAssistant(ok)
    \/ \E ok \in BOOLEAN : CagThread(ok)
    \/ \E ok \in BOOLEAN : CagMessage(ok)
    \/ \E ok \in BOOLEAN, status \in PollStatuses : CagRun(ok, status)
    \/ \E ok \in BOOLEAN, status \in PollStatuses : CagPoll(ok, status)
    \/ \E ok \in BOOLEAN, has_message \in BOOLEAN : CagList(ok, has_message, PaddedJon)
    \/ \E unlinked \in BOOLEAN, deleted \in BOOLEAN : CagCleanup(unlinked, deleted)

SpecPoll == Init /\ [][PollNext]_vars

(***************************************************************************)
(* Properties.                                                             *)
(***************************************************************************)
\* the usage of the entries of a log
RECURSIVE SumUsage(_)
SumUsage(log) ==
    IF log = <<>> THEN 0 ELSE Head(log).usage + SumUsage(Tail(log))

InGun == op.name = "generate_unique_name"

AllRejected(log) == \A j \in 1..Len(log) : log[j].outcome = "rejected"

NoFailure(log) == \A j \in 1..Len(log) : log[j].outcome # "failed"

\* C1: generate_unique_name never makes more than max_attempts provider calls;
\* when the credential is set and every response is a success that the
\* similarity filter rejects, the call ends after exactly max_attempts calls,
\* returns None, and the tracker has grown by the usage of all of them.
C1_RetryBound ==
    InGun =>
        /\ calls <= op.max_attempts
        /\ calls = Len(attempts_log)
        /\ (pc = "done" /\ env_key /\ AllRejected(attempts_log)) =>
              /\ calls = op.max_attempts
              /\ result = ReturnNone
              /\ total_tokens = start_tokens + SumUsage(attempts_log)

C1_Witness ==
    /\ InGun
    /\ pc = "done"
    /\ op.max_attempts >= 2
    /\ calls = op.max_attempts
    /\ AllRejected(attempts_log)
    /\ result = ReturnNone
    /\ total_tokens >= start_tokens + 2

\* a response whose trimmed text passes the similarity filter
Acceptable(e, past) ==
    /\ e.outcome # "failed"
    /\ ~is_too_similar(strip(e.text), past, DefaultThreshold)

\* C2: generate_unique_name returns the trimmed text of the first response that
\* is not too similar to past_names and calls the provider no more after it;
\* without a provider failure, a result other than None is a name that is not
\* too similar to any entry of past_names.
C2_FirstDistinct ==
    (InGun /\ env_key) =>
        /\ \A j \in 1..Len(attempts_log) :
              Acceptable(attempts_log[j], op.past_names) =>
                  /\ j = Len(attempts_log)
                  /\ pc = "done"
                  /\ calls = j
                  /\ result = ReturnStr(strip(attempts_log[j].text))
        /\ (pc = "done" /\ NoFailure(attempts_log) /\ result # ReturnNone) =>
              /\ result.kind = "str"
              /\ attempts_log # <<>>
              /\ Acceptable(attempts_log[Len(attempts_log)], op.past_names)
              /\ result.text = strip(attempts_log[Len(attempts_log)].text)
              /\ \A k \in 1..Len(op.past_names) :
                    distance(lower(result.text), lower(op.past_names[k])) > DefaultThreshold

C2_Witness ==
    /\ InGun
    /\ pc = "done"
    /\ Len(attempts_log) >= 2
    /\ attempts_log[1].outcome = "rejected"
    /\ result = ReturnStr(Zed)
    /\ op.past_names = <<John>>
    /\ attempts_log[Len(attempts_log)].text = Zed

\* C3: when the provider call of attempt k fails, generate_unique_name calls the
\* provider no more and returns an error-bearing string (it neither raises nor
\* returns None); the usage of the k-1 rejected attempts before it stays in the
\* tracker.
C3_FailureEndsLoop ==
    InGun =>
        \A j \in 1..Len(attempts_log) :
            attempts_log[j].outcome = "failed" =>
                /\ j = Len(attempts_log)
                /\ pc = "done"
                /\ calls = j
                /\ j <= op.max_attempts
                /\ result.kind = "error_str"
                /\ result.text = <<"Error generating ", "name", ": ", result.msg>>
                /\ AllRejected(SubSeq(attempts_log, 1, j - 1))
                /\ total_tokens = start_tokens + SumUsage(SubSeq(attempts_log, 1, j - 1))

C3_Witness ==
    /\ InGun
    /\ pc = "done"
    /\ Len(attempts_log) >= 2
    /\ attempts_log[Len(attempts_log)].outcome = "failed"
    /\ result.kind = "error_str"
    /\ total_tokens > start_tokens

\* C4: without a credential, generate_unique_name and generate_description raise
\* the configuration error before any provider call, and the tracker is as it was.
C4_NoCredential ==
    (~env_key /\ op.name \in {"generate_unique_name", "generate_description"}) =>
        /\ pc = "done"
        /\ result = Raise("ValueError", MissingKey)
        /\ calls = 0
        /\ attempts_log = <<>>
        /\ total_tokens = start_tokens

C4_Witness ==
    /\ ~env_key
    /\ pc = "done"
    /\ op.name = "generate_description"
    /\ result = Raise("ValueError", MissingKey)
    /\ total_tokens > 0

\* C5: without a credential no operation calls the provider, and each ends by
\* raising the configuration error itself (batch_generate_names,
\* context_aware_generate and generate_name_by_category included).
C5_CredentialEverywhere ==
    (~env_key /\ pc # "idle") =>
        /\ calls = 0
        /\ pc = "done" => result = Raise("ValueError", MissingKey)

\* C6: the tracker's total is the usage of the successful provider responses and
\* of the add_usage calls since the last reset: each is counted once, rejected
\* names included, and failed calls add nothing.
C6_TrackerIsBilled == total_tokens = billed

C6_Witness ==
    /\ pc = "done"
    /\ op.name = "batch_generate_names"
    /\ calls >= 2
    /\ \E j \in 1..Len(attempts_log) : attempts_log[j].outcome = "failed"
    /\ billed >= 2
    /\ total_tokens = billed

\* the total a tracker should report after a log of operations
RECURSIVE ExpectedTotal(_)
ExpectedTotal(log) ==
    IF log = <<>>
    THEN 0
    ELSE LET last == log[Len(log)]
         IN  IF last.op = "reset"
             THEN 0
             ELSE ExpectedTotal(SubSeq(log, 1, Len(log) - 1)) + last.n

Added(n) == [op |-> "add_usage", n |-> n]
WasReset == [op |-> "reset", n |-> 0]

\* C7: a TokenTracker starts at 0; add_usage(a) then add_usage(b) makes report()
\* give a+b (50 then 25 gives 75); reset() makes it 0 whatever came before, and
\* an add_usage(c) after it gives c.
C7_TrackerTotals ==
    /\ report(tracker) = [total_tokens_used |-> ExpectedTotal(tracker_log)]
    /\ tracker_log = <<>> => tracker = 0
    /\ tracker_log = <<Added(50), Added(25)>> => report(tracker).total_tokens_used = 75
    /\ (tracker_log # <<>> /\ tracker_log[Len(tracker_log)] = WasReset) => tracker = 0
    /\ (Len(tracker_log) >= 2 /\ tracker_log[Len(tracker_log) - 1] = WasReset
          /\ tracker_log[Len(tracker_log)].op = "add_usage") =>
             tracker = tracker_log[Len(tracker_log)].n

C7_Witness ==
    /\ tracker_log = <<Added(50), Added(25), WasReset, Added(25)>>
    /\ tracker = 25

\* the characters of a string
Chars(s) == {s[i] : i \in 1..Len(s)}

\* the strings one insertion, deletion or substitution away from s, with
\* characters of cs
OneEdit(s, cs) ==
    {SubSeq(s, 1, i - 1) \o SubSeq(s, i + 1, Len(s)) : i \in 1..Len(s)}
    \cup {[s EXCEPT ![i] = c] : i \in 1..Len(s), c \in cs}
    \cup {SubSeq(s, 1, i) \o <<c>> \o SubSeq(s, i + 1, Len(s)) : i \in 0..Len(s), c \in cs}

\* t is at most k single-character edits away from s
RECURSIVE WithinEdits(_, _, _)
WithinEdits(s, t, k) ==
    \/ s = t
    \/ /\ k > 0
       /\ \E u \in OneEdit(s, Chars(t)) : WithinEdits(u, t, k - 1)

\* the two letters are the same up to case
SameLetter(c, d) ==
    \/ c = d
    \/ \E i \in 1..26 : {c, d} = {UpperCase[i], LowerCase[i]}

SameUpToCase(s, t) ==
    /\ Len(s) = Len(t)
    /\ \A i \in 1..Len(s) : SameLetter(s[i], t[i])

\* a string with its upper-case letters replaced by the lower-case ones
Folded(s) ==
    [i \in 1..Len(s) |->
        IF \E k \in 1..26 : UpperCase[k] = s[i]
        THEN LowerCase[CHOOSE k \in 1..26 : UpperCase[k] = s[i]]
        ELSE s[i]]

\* C8: is_too_similar is true exactly when some reference string is within
\* threshold single-character edits of the candidate, both lower-cased; the call
\* leaves its arguments and everything else as they were.
C8_Similarity ==
    /\ [](sim_out.done =>
            (sim_out.value <=>
                \E k \in 1..Len(sim_in.past_names) :
                    WithinEdits(Folded(sim_in.new_name), Folded(sim_in.past_names[k]),
                                sim_in.threshold)))
    /\ [][SimApply => UNCHANGED <<sim_in, genvars, trackervars, filevars>>]_vars

C8_Witness ==
    /\ sim_out.done
    /\ sim_out.value
    /\ Len(sim_in.past_names) = 2
    /\ sim_in.threshold = 1
    /\ ~WithinEdits(Folded(sim_in.new_name), Folded(sim_in.past_names[1]), 1)
    /\ WithinEdits(Folded(sim_in.new_name), Folded(sim_in.past_names[2]), 1)
    /\ sim_in.new_name # Folded(sim_in.new_name)

\* C9: with no reference string is_too_similar is false, for every string and
\* threshold; with threshold 0 and one reference that equals the candidate up to
\* letter case it is true.
C9_EmptyAndIdentity ==
    sim_out.done =>
        /\ sim_in.past_names = <<>> => ~sim_out.value
        /\ (/\ sim_in.threshold = 0
            /\ Len(sim_in.past_names) = 1
            /\ SameUpToCase(sim_in.new_name, sim_in.past_names[1])) => sim_out.value

C9_Witness ==
    /\ sim_out.done
    /\ sim_out.value
    /\ sim_in.threshold = 0
    /\ Len(sim_in.past_names) = 1
    /\ sim_in.new_name # sim_in.past_names[1]
    /\ SameUpToCase(sim_in.new_name, sim_in.past_names[1])
    /\ Len(sim_in.new_name) = 2

C11_PrefixIsSimilar ==
    sim_out.done =>
        /\ sim_in = SimCall(Sam, <<Samuel, Samantha>>, 2) => sim_out.value
        /\ sim_in = SimCall(Bob, <<Robert>>, 2) => ~sim_out.value

\* C12: save_project(P, path) followed by load_project(path) yields a project
\* equal to P in name, description, every category's name -> description
\* mapping (empty categories and empty descriptions included) and token_usage;
\* save_project leaves P unchanged.
C12_RoundTrip ==
    /\ [](pc = "done" /\ op.name = "load_project" /\ disk.exists =>
              /\ result.kind = "None"
              /\ loaded = saved
              /\ loaded.project = AsLoaded(CurrentProject))
    /\ [][\A writable \in BOOLEAN : SaveProject(writable) =>
              UNCHANGED <<project_name, project_description, categories, token_usage>>]_vars

C12_Witness ==
    /\ pc = "done"
    /\ op.name = "load_project"
    /\ loaded.kind = "project"
    /\ Len(categories) = 2
    /\ Len(categories[1].entries) = 2
    /\ categories[1].entries[1].description = <<>>
    /\ categories[1].entries[2].description = Quoted
    /\ categories[2].entries = <<>>
    /\ project_name = Quoted
    /\ token_usage = 105


\* a call of the project that began and ended in this step
Called(what) == pc = "idle" /\ pc' = "done" /\ op'.name = what

\* the project as its caller sees it
projectvars == <<categories, token_usage, project_name, project_description>>

\* C13: name uniqueness is scoped per category: adding a name to a category
\* that exists never raises, whether or not another category holds the same
\* name, and adding or overwriting a name in one category leaves the entries
\* and descriptions of every other category unchanged.
C13_CategoryIsolation ==
    [][Called("add_name") /\ has_category(categories, op'.category) =>
          /\ result'.kind = "None"
          /\ description_of(categories', op'.category, op'.item) = op'.text
          /\ Len(categories') = Len(categories)
          /\ \A i \in 1..Len(categories) :
                 /\ categories'[i].cat = categories[i].cat
                 /\ categories[i].cat # op'.category =>
                        categories'[i].entries = categories[i].entries]_vars

C13_Witness ==
    /\ pc = "done"
    /\ op.name = "add_name"
    /\ op.category = "locations"
    /\ op.item = Aria
    /\ result.kind = "None"
    /\ has_category(categories, "characters")
    /\ has_name(categories, "characters", Aria)
    /\ description_of(categories, "characters", Aria) = <<>>
    /\ description_of(categories, "locations", Aria) = Quoted

\* C14: add_name and get_names on a category that does not exist, and
\* get_description on a category or a name that does not exist, raise the
\* not-found error (ValueError), and the project's categories, names,
\* descriptions and token_usage are as before the call.
C14_NotFound ==
    [][/\ (Called("add_name") \/ Called("get_names") \/ Called("get_description"))
              /\ ~has_category(categories, op'.category)
          => result'.kind = "ValueError" /\ result'.msg = CategoryMissing
                /\ UNCHANGED projectvars
       /\ Called("get_description") /\ has_category(categories, op'.category)
              /\ ~has_name(categories, op'.category, op'.item)
          => result'.kind = "ValueError" /\ result'.msg = NameMissing
                /\ UNCHANGED projectvars]_vars

C14_Witness ==
    /\ pc = "done"
    /\ op.name = "add_name"
    /\ op.category = "locations"
    /\ result.kind = "ValueError"
    /\ has_category(categories, "characters")
    /\ has_name(categories, "characters", op.item)
    /\ ~has_category(categories, "locations")

\* C15: add_category is idempotent: for a category that already exists it is a
\* no-op that keeps every name and description stored in the project.
C15_AddCategoryIdempotent ==
    [][Called("add_category") /\ has_category(categories, op'.category) =>
          UNCHANGED projectvars]_vars

C15_Witness ==
    /\ pc = "done"
    /\ op.name = "add_category"
    /\ op.category = "characters"
    /\ Len(categories) = 2
    /\ Len(entries_of(categories, "characters")) = 2
    /\ description_of(categories, "characters", Aria) = Quoted

\* the entries of a category that carry a name
slots(cats, c, n) == {i \in 1..Len(entries_of(cats, c)) : entries_of(cats, c)[i].name = n}

\* C16: re-adding a name that already exists in a category is not an error: it
\* overwrites the name's description with the new one, the category holds
\* exactly one entry for the name, and the number of names does not change.
C16_LastWriteWins ==
    [][Called("add_name") /\ has_category(categories, op'.category)
          /\ has_name(categories, op'.category, op'.item) =>
          /\ result'.kind = "None"
          /\ description_of(categories', op'.category, op'.item) = op'.text
          /\ Cardinality(slots(categories', op'.category, op'.item)) = 1
          /\ Len(entries_of(categories', op'.category))
                = Len(entries_of(categories, op'.category))
          /\ get_names(categories', op'.category) = get_names(categories, op'.category)]_vars

C16_Witness ==
    /\ pc = "done"
    /\ op.name = "add_name"
    /\ op.category = "characters"
    /\ op.item = Aria
    /\ op.text = Quoted
    /\ result.kind = "None"
    /\ get_names(categories, "characters") = <<Aria, Zed>>
    /\ description_of(categories, "characters", Aria) = Quoted

\* batch_generate_names is running or has just ended
InBatch == op.name = "batch_generate_names" /\ pc \in {"batch", "done"}

\* the provider calls of the running call that asked for names
NameCalls == {i \in 1..Len(attempts_log) : attempts_log[i].call = "names"}

\* the name call of batch_generate_names was answered in this step
NameCallAnswered(outcome) ==
    /\ pc = "idle"
    /\ op'.name = "batch_generate_names"
    /\ attempts_log' # <<>>
    /\ attempts_log'[1].outcome = outcome

C18_ReturnsAccepted ==
    InBatch /\ pc = "done" /\ result.kind = "list" =>
        \A i \in 1..Len(result.list) :
            /\ ~is_too_similar(result.list[i], op.past_names, DefaultThreshold)
            /\ has_name(categories, op.category, result.list[i])

\* within two single-character edits of a name of the list, case aside
TooClose(n, past) ==
    \E i \in 1..Len(past) : WithinEdits(Folded(n), Folded(past[i]), DefaultThreshold)

\* a name with no blank at either end and no line break
Trimmed(n) ==
    /\ n # <<>>
    /\ n[1] \notin Whitespace
    /\ n[Len(n)] \notin Whitespace
    /\ \A i \in 1..Len(n) : n[i] # "\n"

\* C19: when batch_generate_names returns, the names of the category are the
\* names it held before the call and those candidates that are not too similar
\* to any of the names it held before the call, two candidates of one response
\* that are similar to each other included; no blank or untrimmed name is ever
\* in the category.
C19_AcceptedAgainstPastNames ==
    /\ InBatch /\ pc = "done" /\ result.kind = "list" =>
           Chars(get_names(categories, op.category))
               = Chars(op.past_names)
                 \cup {n \in Chars(op.generated) : ~TooClose(n, op.past_names)}
    /\ \A i \in 1..Len(categories) : \A j \in 1..Len(categories[i].entries) :
           Trimmed(categories[i].entries[j].name)

C19_Witness ==
    /\ InBatch
    /\ pc = "done"
    /\ result.kind = "list"
    /\ op.past_names = <<>>
    /\ get_names(categories, op.category) = <<Zed, <<"z","e","d">>>>
    /\ attempts_log[1].text = ZedTwice

\* C20: when the provider call of batch_generate_names fails or returns no
\* completions, the call raises and nothing else happens: no name is added to
\* any category, and the project's token_usage and the shared tracker are as
\* before.
C20_FailedBatch ==
    [][NameCallAnswered("failed") =>
          /\ pc' = "done"
          /\ result'.kind = "RuntimeError"
          /\ UNCHANGED <<categories, token_usage, total_tokens>>]_vars

C20_Witness ==
    /\ InBatch
    /\ pc = "done"
    /\ result.kind = "RuntimeError"
    /\ Len(attempts_log) = 1
    /\ attempts_log[1].outcome = "failed"
    /\ attempts_log[1].usage = 1
    /\ Len(entries_of(categories, op.category)) = 1
    /\ total_tokens = 1
\* the operations of the Project Store that ask the provider
StoreGenerators ==
    {"batch_generate_names", "NameProject.generate_description", "context_aware_generate"}

\* the provider calls made in this step
NewCalls ==
    IF pc = "idle"
    THEN attempts_log'
    ELSE SubSeq(attempts_log', Len(attempts_log) + 1, Len(attempts_log'))

\* the calls of a log that the provider answered with a result
RECURSIVE Successful(_)
Successful(log) ==
    IF log = <<>>
    THEN <<>>
    ELSE IF Head(log).outcome = "failed"
         THEN Successful(Tail(log))
         ELSE <<Head(log)>> \o Successful(Tail(log))

\* C21: a project's token_usage is the running total of the usage of the
\* provider calls the Project Store issues for it: every step of
\* batch_generate_names (its per-name description calls included),
\* NameProject.generate_description and context_aware_generate raises
\* token_usage by the usage of the successful provider calls it made.
C21_ProjectUsageIsTotal ==
    [][op'.name \in StoreGenerators =>
          token_usage' = token_usage + SumUsage(Successful(NewCalls))]_vars

\* C22: a project's token_usage never decreases over any sequence of project
\* operations, and resetting the process-wide tracker leaves it unchanged.
C22_UsageNeverDecreases ==
    [][/\ token_usage' >= token_usage
       /\ Reset => token_usage' = token_usage]_vars

C22_Witness ==
    /\ pc = "idle"
    /\ token_usage >= 2
    /\ total_tokens = 0
    /\ billed = 0

\* C23: nothing is ever deleted from a project: whatever the operation and
\* whether it succeeds or fails, a category that exists keeps existing and a
\* name that is in a category stays in it.
C23_NothingDeleted ==
    [][\A i \in 1..Len(categories) :
          /\ has_category(categories', categories[i].cat)
          /\ \A j \in 1..Len(categories[i].entries) :
                 has_name(categories', categories[i].cat,
                          categories[i].entries[j].name)]_vars

C23_Witness ==
    /\ pc = "done"
    /\ op.name = "batch_generate_names"
    /\ result.kind = "RuntimeError"
    /\ op.idx = 1
    /\ get_names(categories, op.category) = <<Zed>>

\* C30: NameProject.generate_description on an absent category or name raises
\* not-found, makes no provider call and changes nothing in the project;
\* otherwise, when it returns, the stored description of the name is the text
\* it returns and no other entry has changed, also when the provider failed:
\* the error placeholder is returned and overwrites the description.
C30_DescribeStoredName ==
    [][Called("NameProject.generate_description") =>
          IF description_target_missing(categories, op'.category, op'.item)
          THEN /\ result'.kind = "ValueError"
               /\ result'.msg \in {CategoryMissing, NameMissing}
               /\ calls' = 0
               /\ UNCHANGED <<projectvars, total_tokens>>
          ELSE result'.kind \in {"str", "error_str"} =>
                 /\ description_of(categories', op'.category, op'.item) = result'.text
                 /\ get_names(categories', op'.category)
                       = get_names(categories, op'.category)
                 /\ \A i \in 1..Len(categories) :
                        \A j \in 1..Len(categories[i].entries) :
                            categories[i].entries[j].name # op'.item =>
                                categories'[i].entries[j] = categories[i].entries[j]]_vars

C30_Witness ==
    /\ pc = "done"
    /\ op.name = "NameProject.generate_description"
    /\ result.kind = "error_str"
    /\ calls = 1
    /\ Len(entries_of(categories, op.category)) = 2
    /\ description_of(categories, op.category, op.item) = result.text
    /\ op.item = Zed
    /\ has_name(categories, op.category, John)
    /\ description_of(categories, op.category, John) = <<>>

\* generate_description of namegiver.py has ended
DescriptionDone == pc = "done" /\ op.name = "generate_description"

\* C29: generate_description makes one provider call per invocation, without
\* retry and without similarity filtering: never more than one, and exactly one
\* once the credential is there. On success it returns the trimmed text and
\* the tracker has grown by the reported usage; on provider failure it returns
\* the error placeholder, raises nothing and leaves the tracker as it was.
C29_DescriptionSingleAttempt ==
    DescriptionDone =>
        /\ calls <= 1
        /\ Len(attempts_log) = calls
        /\ env_key =>
              /\ calls = 1
              /\ attempts_log[1].outcome = "accepted" =>
                     /\ result = ReturnStr(strip(attempts_log[1].text))
                     /\ total_tokens = start_tokens + attempts_log[1].usage
              /\ attempts_log[1].outcome = "failed" =>
                     /\ result.kind = "error_str"
                     /\ result.text[1] = "Error generating "
                     /\ total_tokens = start_tokens

C29_Witness ==
    /\ DescriptionDone
    /\ calls = 1
    /\ attempts_log[1].outcome = "failed"
    /\ attempts_log[1].usage = 1
    /\ result.kind = "error_str"
    /\ start_tokens = 1
    /\ total_tokens = 1

\* context_aware_generate is running, or has ended
InCag == op.name = "context_aware_generate"
CagDone == InCag /\ pc = "done"

\* context_aware_generate was called in this step
CagCalled == pc = "idle" /\ op'.name = "context_aware_generate"

BodyCalls == {i \in 1..Len(attempts_log) : attempts_log[i].call # "files.delete"}

\* something in the body failed: a provider call, the run, or the thread held
\* no message of the assistant
BodyFailed ==
    \/ \E i \in BodyCalls : attempts_log[i].outcome = "failed"
    \/ op.status \in FailedStatuses
    \/ op.outcome.msg = NoAssistantMessage

\* C25: any failure inside the body of context_aware_generate (upload,
\* assistant, thread, message or run creation, a run that ends failed,
\* cancelled or expired, no assistant message) is raised as the one generation
\* error, and before any name is added: no category gains a name and no
\* description changes.
C25_FailureAddsNothing ==
    /\ [](CagDone => result.kind \in {"str", "ValueError"})
    /\ [](CagDone /\ BodyFailed => result.kind = "ValueError")
    /\ [](CagDone /\ result.kind = "ValueError" => all_names(categories) = op.past_names)
    /\ [][InCag /\ categories' # categories =>
              /\ op'.outcome.kind = "str"
              /\ ~BodyFailed]_vars

C25_Witness ==
    /\ CagDone
    /\ result = Raise("ValueError", NoAssistantMessage)
    /\ op.status = "completed"
    /\ op.category = "locations"
    /\ entries_of(categories, "locations") = <<>>
    /\ has_category(categories, "characters")
    /\ entries_of(categories, "characters") = <<[name |-> Zed, description |-> Quoted]>>

\* the calls of client.files.delete
DeleteCalls == {i \in 1..Len(attempts_log) : attempts_log[i].call = "files.delete"}

\* C26: on every exit path of context_aware_generate the cleanup phase runs
\* after the body: the local temporary file is unlinked and, when the upload
\* had succeeded, the deletion of the uploaded file is attempted exactly once;
\* a cleanup step that fails is suppressed and replaces neither the result nor
\* the original error.
C26_CleanupAlways ==
    /\ [][InCag' /\ pc' = "done" /\ pc # "done" => pc = "cag_cleanup"]_vars
    /\ [](InCag /\ pc \notin {"cag_cleanup", "done"} =>
              /\ op.outcome = NoResult
              /\ op.unlink = ""
              /\ DeleteCalls = {}
              /\ fs.temp_file)
    /\ [](CagDone =>
              /\ op.unlink \in {"removed", "failed"}
              /\ op.unlink = "removed" => ~fs.temp_file
              /\ Cardinality(DeleteCalls) = IF op.file_obj THEN 1 ELSE 0
              /\ DeleteCalls \subseteq {Len(attempts_log)}
              /\ op.file_obj = (attempts_log[1].outcome = "accepted")
              /\ result = op.outcome
              /\ result.kind \in {"str", "ValueError"})

C26_Witness ==
    /\ CagDone
    /\ op.unlink = "failed"
    /\ op.file_obj
    /\ attempts_log[Len(attempts_log)] = CagLog("files.delete", FALSE)
    /\ fs.remote_file
    /\ result = generation_error(run_failed_msg("expired"))

\* the provider call made in this step, if any
Asked(what) ==
    /\ Len(attempts_log') = Len(attempts_log) + 1
    /\ attempts_log'[Len(attempts_log')].call = what

\* C27: context_aware_generate polls the run until it is in a terminal state:
\* once the run reports completed, failed, cancelled or expired the call leaves
\* the polling loop; it reads the thread's messages only when the status is
\* completed, and a poll that reports one of the other three fails with the
\* "Assistant run failed" error that names the status.
C27_PollingEnds ==
    /\ [](InCag /\ pc = "cag_poll" /\ op.status \in TerminalStatuses
              => <>(pc # "cag_poll"))
    /\ [][InCag /\ Asked("messages.list") => op.status = "completed"]_vars
    /\ [][InCag /\ Asked("runs.retrieve") => op.status # "completed"]_vars
    /\ [][InCag /\ Asked("runs.retrieve")
              /\ attempts_log'[Len(attempts_log')].outcome = "accepted"
              /\ op'.status \in FailedStatuses =>
                  /\ pc' = "cag_cleanup"
                  /\ op'.outcome = Raise("ValueError", run_failed_msg(op'.status))]_vars
    /\ [](CagDone /\ result.kind = "str" => op.status = "completed")

C27_Witness ==
    /\ CagDone
    /\ op.status = "cancelled"
    /\ op.attempt = 2
    /\ result = Raise("ValueError", "Assistant run failed with status: cancelled")

\* the text of the assistant's message, once it has been read
AssistantText == attempts_log[CHOOSE i \in 1..Len(attempts_log) :
                                  attempts_log[i].call = "messages.list"].text

\* the lines of a text that are not blank, trimmed
NonBlankLines(text) == strip_nonblank(split_lines(text))

\* the call has stored what it read from the assistant
CagStored == CagDone /\ result.kind = "str"

\* C28 as claimed: with a description requested and at least two non-blank
\* lines the name is the first non-blank line and the description the other
\* non-blank lines; in every other case, no description requested included, the
\* whole response is the name and the description is empty.
C28_AsClaimed ==
    CagStored =>
        IF op.want_desc /\ Len(NonBlankLines(AssistantText)) >= 2
        THEN /\ result.text = NonBlankLines(AssistantText)[1]
             /\ description_of(categories, op.category, result.text)
                   = join_lines(Tail(NonBlankLines(AssistantText)))
        ELSE /\ result.text = strip(AssistantText)
             /\ description_of(categories, op.category, result.text) = <<>>

\* C28: context_aware_generate stores what it parses with add_name. With a
\* description requested and at least two non-blank lines, the name is the
\* first non-blank line and the description the other non-blank lines, joined
\* by line breaks; with a description requested and fewer non-blank lines the
\* name is the whole response, trimmed, and the description is empty; with no
\* description requested the name is the first non-blank line, trimmed (empty
\* when there is none), and the description is empty.
C28_ParseRule ==
    CagStored =>
        /\ has_name(categories, op.category, result.text)
        /\ IF op.want_desc
           THEN IF Len(NonBlankLines(AssistantText)) >= 2
                THEN /\ result.text = NonBlankLines(AssistantText)[1]
                     /\ description_of(categories, op.category, result.text)
                           = join_lines(Tail(NonBlankLines(AssistantText)))
                ELSE /\ result.text = strip(AssistantText)
                     /\ description_of(categories, op.category, result.text) = <<>>
           ELSE /\ result.text = IF NonBlankLines(AssistantText) = <<>>
                                 THEN <<>>
                                 ELSE NonBlankLines(AssistantText)[1]
                /\ description_of(categories, op.category, result.text) = <<>>

C28_Witness ==
    /\ CagStored
    /\ ~op.want_desc
    /\ AssistantText = NameAndText
    /\ result.text = Zed
    /\ description_of(categories, op.category, Zed) = <<>>
    /\ op.past_names = <<Zed>>

\* load_project has ended
LoadDone == pc = "done" /\ op.name = "load_project"

\* C31: load_project on a path with no file raises FileNotFoundError; on an
\* existing file that is structurally invalid (unparsable JSON, no name or
\* categories key, a top-level value that is not an object, categories or
\* entries of the wrong shape) it raises ValueError and no other kind of error.
C31_LoadErrors ==
    LoadDone =>
        /\ ~disk.exists => result.kind = "FileNotFoundError"
        /\ (disk.exists /\ disk.text \in InvalidFiles) => result.kind = "ValueError"

\* C32: load_project reads the legacy schema {name, categories: {cat: [name,
\* ...]}, token_usage}: every listed name is in its category with an empty
\* description, the project description is empty, and token_usage is the
\* file's (0 when the field is absent).
C32_LegacySchema ==
    (LoadDone /\ disk.exists /\ disk.text \in LegacyFiles) =>
        /\ result.kind = "None"
        /\ loaded.kind = "project"
        /\ loaded.project.description = JStr(<<>>)
        /\ loaded.project.token_usage = IF disk.text = LegacyFile THEN JNum(7) ELSE JNum(0)
        /\ loaded.project.categories[1].entries[1]
              = [name |-> Zed, description |-> JStr(<<>>)]

InGnc == op.name = "generate_name_by_category"

\* C33: generate_name_by_category retries when the generated name is too
\* similar to past_names, up to max_attempts provider calls, and returns None
\* only after max_attempts rejected responses.
C33_RetriesByCategory ==
    (InGnc /\ pc = "done") =>
        /\ calls <= op.max_attempts
        /\ result = ReturnNone =>
              /\ AllRejected(attempts_log)
              /\ calls = op.max_attempts

\* the callers that run at the same time
Racing == DOMAIN threads

\* caller c leaves the place it is at in this step
Leaves(c, place) == threads[c].pc = place /\ threads'[c].pc # place

\* no caller is inside a call
Quiet == threads # NoThreads /\ \A c \in Racing : threads[c].pc = "idle"

\* C34: the shared tracker and a project are unprotected shared state. With
\* two callers at once every write of a total stores the value its caller read
\* earlier plus the caller's count, whatever the other caller wrote in between,
\* so the final total can be less than the sum of the added counts (never
\* more); the same holds for token_usage in batch_generate_names, and each
\* caller tests its candidates against the names it read before its provider
\* call, so both can add names that are too similar to each other.
C34_UnprotectedState ==
    /\ [][\A c \in Racing :
              /\ (Leaves(c, "add_usage") \/ Leaves(c, "tracker")) =>
                     total_tokens' = threads[c].read + threads[c].n
              /\ Leaves(c, "usage_store") =>
                     token_usage' = threads[c].read + threads[c].n
              /\ (threads[c].pc = "loop" /\ threads'[c].idx = threads[c].idx + 1) =>
                     (has_name(categories', "characters", threads[c].generated[threads[c].idx])
                         <=> \/ has_name(categories, "characters",
                                         threads[c].generated[threads[c].idx])
                             \/ ~is_too_similar(threads[c].generated[threads[c].idx],
                                                threads[c].past_names, DefaultThreshold))]_vars
    /\ [](threads # NoThreads =>
              /\ total_tokens <= Owed(threads, "added")
              /\ token_usage <= Owed(threads, "added_to_project"))

C34_Witness ==
    /\ Quiet
    /\ total_tokens > 0
    /\ total_tokens < Owed(threads, "added")
    /\ token_usage > 0
    /\ token_usage < Owed(threads, "added_to_project")
    /\ get_names(categories, "characters") = <<Zed, LowerZed>>
    /\ is_too_similar(LowerZed, <<Zed>>, DefaultThreshold)

\* the candidates of the response that the similarity test lets through, in
\* the order of the response
RECURSIVE AcceptedOf(_, _)
AcceptedOf(names, past) ==
    IF names = <<>>
    THEN <<>>
    ELSE IF is_too_similar(Head(names), past, DefaultThreshold)
         THEN AcceptedOf(Tail(names), past)
         ELSE <<Head(names)>> \o AcceptedOf(Tail(names), past)

\* the last of the texts the description generator returned for a name
LastText(described, n) ==
    described[CHOOSE i \in 1..Len(described) :
                  /\ described[i].name = n
                  /\ \A j \in (i + 1)..Len(described) : described[j].name # n].text

\* the provider calls of the running call that asked for a description
DescriptionCalls == {i \in 1..Len(attempts_log) : attempts_log[i].call = "description"}

CategoryOrder(cats) == [i \in 1..Len(cats) |-> cats[i].cat]

\* the names of the i-th category of a loaded project, in their order
NameOrder(cats, i) == [j \in 1..Len(cats[i].entries) |-> cats[i].entries[j].name]

\* C36: insertion order is preserved. get_names returns the names of a category
\* in the order they were first added: a new name goes to the end of the list
\* and a name that is already there keeps its position when its description
\* is overwritten. A load_project of a file written by save_project gives the
\* categories, and the names of each category, in the order they had when the
\* file was saved.
C36_InsertionOrder ==
    /\ [][(Called("add_name") /\ has_category(categories, op'.category)) =>
              IF has_name(categories, op'.category, op'.item)
              THEN get_names(categories', op'.category) = get_names(categories, op'.category)
              ELSE get_names(categories', op'.category)
                       = Append(get_names(categories, op'.category), op'.item)]_vars
    /\ [][(Called("get_names") /\ has_category(categories, op'.category)) =>
              /\ result'.kind = "list"
              /\ result'.list = get_names(categories, op'.category)
              /\ UNCHANGED categories]_vars
    /\ [][\A writable \in BOOLEAN : SaveProject(writable) /\ writable =>
              /\ CategoryOrder(saved'.project.categories)
                     = [i \in 1..Len(categories) |-> label_str(categories[i].cat)]
              /\ \A i \in 1..Len(categories) :
                     NameOrder(saved'.project.categories, i)
                         = get_names(categories, categories[i].cat)]_vars
    /\ [](LoadDone /\ saved.kind = "project" =>
              /\ loaded.kind = "project"
              /\ CategoryOrder(loaded.project.categories)
                     = CategoryOrder(saved.project.categories)
              /\ \A i \in 1..Len(saved.project.categories) :
                     NameOrder(loaded.project.categories, i)
                         = NameOrder(saved.project.categories, i))

\* a project saved with "locations" before "characters" and Zed before Aria,
\* Aria's description overwritten, is loaded in that order
C36_Witness ==
    /\ LoadDone
    /\ loaded.kind = "project"
    /\ CategoryOrder(loaded.project.categories)
           = <<label_str("locations"), label_str("characters")>>
    /\ NameOrder(loaded.project.categories, 2) = <<Zed, Aria>>
    /\ loaded.project.categories[2].entries[2].description = JStr(Quoted)
    /\ get_names(categories, "characters") = <<Zed, Aria>>

\* the step of context_aware_generate that stores what the assistant answered
CagStores == InCag /\ pc = "cag_poll" /\ pc' = "cag_cleanup" /\ op'.outcome.kind = "str"

\* C37: context_aware_generate applies no similarity filter to the assistant's
\* response. Whenever the body does not fail the parsed name is stored in the
\* target category with the parsed description, also when the name is too
\* similar or identical to a name of the project; a name already in the target
\* category keeps its place and has its description overwritten, with the empty
\* string when no description was requested or parsed, and every other entry
\* is left as it was.
C37_NoSimilarityFilter ==
    /\ [](CagDone /\ ~BodyFailed => result.kind = "str")
    /\ [][CagStores =>
              LET name == op'.outcome.text
                  text == attempts_log'[Len(attempts_log')].text
                  was == entries_of(categories, op.category)
                  now == entries_of(categories', op.category)
              IN  /\ name = parsed_name(op.want_desc, text)
                  /\ has_name(categories', op.category, name)
                  /\ description_of(categories', op.category, name)
                         = parsed_description(op.want_desc, text)
                  /\ ~op.want_desc => description_of(categories', op.category, name) = <<>>
                  /\ Len(now) = IF has_name(categories, op.category, name)
                                THEN Len(was) ELSE Len(was) + 1
                  /\ \A i \in 1..Len(was) :
                         IF was[i].name = name
                         THEN now[i].name = name
                         ELSE now[i] = was[i]]_vars

\* the assistant answers a name the category already holds with a description:
\* the name is returned and its description is now the one just parsed
C37_Witness ==
    /\ CagStored
    /\ op.want_desc
    /\ op.category = "characters"
    /\ op.past_names = <<Zed>>
    /\ is_too_similar(result.text, op.past_names, DefaultThreshold)
    /\ AssistantText = NameAndText
    /\ entries_of(categories, "characters")
           = <<[name |-> Zed, description |-> parsed_description(TRUE, NameAndText)]>>
    /\ parsed_description(TRUE, NameAndText) # Quoted

\* context_aware_generate has raised, and its category was not in the project
\* when it was called
FailedOnMissing ==
    /\ CagDone
    /\ result.kind = "ValueError"
    /\ ~has_category(op.before, op.category)

Polling == InCag /\ pc = "cag_poll"

\* the retrieve of this step returned, with a status that is not terminal
StillWaiting ==
    /\ Asked("runs.retrieve")
    /\ attempts_log'[Len(attempts_log')].outcome = "accepted"
    /\ op'.status \notin TerminalStatuses

\* C39: the polling loop of context_aware_generate has no attempt bound or
\* timeout. A poll that reports a status other than completed, failed,
\* cancelled or expired keeps the call in the loop, whatever the number of
\* polls made: nothing is returned or raised, the cleanup phase is not
\* entered and the files stay. The call leaves the loop only on a terminal
\* status or on a retrieve that itself raises, and while the status is not
\* completed the only thing it does is poll again.
C39_PollsWithoutBound ==
    /\ [][Polling /\ StillWaiting =>
              /\ pc' = "cag_poll"
              /\ result' = NoResult
              /\ op'.outcome = NoResult
              /\ op'.attempt = op.attempt + 1
              /\ UNCHANGED <<fs, categories, token_usage>>]_vars
    /\ [][Polling /\ pc' # "cag_poll" =>
              \/ op'.status \in TerminalStatuses
              \/ /\ Asked("runs.retrieve")
                 /\ attempts_log'[Len(attempts_log')].outcome = "failed"]_vars
    /\ [][Polling /\ op.status \notin TerminalStatuses => Asked("runs.retrieve")]_vars
    /\ [](InCag /\ pc \in {"cag_cleanup", "done"} =>
              \/ op.status \in TerminalStatuses
              \/ \E i \in BodyCalls : attempts_log[i].outcome = "failed")

\* as many polls as the model follows, each answered "requires_action" or
\* "queued": the call is still in the loop, with nothing returned or cleaned up
C39_Witness ==
    /\ Polling
    /\ op.attempt = MaxPolls
    /\ op.status = "requires_action"
    /\ Len(attempts_log) = 5 + MaxPolls
    /\ \A i \in 1..Len(attempts_log) : attempts_log[i].outcome = "accepted"
    /\ attempts_log[Len(attempts_log)].call = "runs.retrieve"
    /\ result = NoResult
    /\ op.outcome = NoResult
    /\ fs = [temp_file |-> TRUE, remote_file |-> TRUE]
====
